---- MODULE Spec2Model ----
(***************************************************************************)
(* A model of the memory primitives of patchsoul's `core` module:          *)
(* CountN (index.rs), AllocationN (allocation.rs), Array (array.rs) and    *)
(* Shtick (shtick.rs).                                                     *)
(*                                                                         *)
(* A CountN<T> is modelled by its stored field `self.0`, the NEGATION of   *)
(* the logical count, exactly as the code stores it.  The comparisons on   *)
(* counts are the code's partial_cmp (reversed order of the stored field). *)
(*                                                                         *)
(* Memory (the cells behind an Allocation's `ptr`, and the inline buffer   *)
(* of a Shtick) is a run-length encoded sequence of cells, so that the     *)
(* 32768-byte buffers a Shtick can own fit into a state.  A run is a       *)
(* record [k, at, n] standing for n consecutive cells:                     *)
(*   k = "un" : n uninitialised (or moved-out) cells, at = 0               *)
(*   k = "v"  : n cells that each hold the value `at`                      *)
(*   k = "in" : n cells holding bytes at, at+1, ..., at+n-1 of the byte    *)
(*              string handed to TryFrom<&[u8]> (bytes are opaque data,    *)
(*              distinct per input offset)                                 *)
(* Memory is kept in normal form (no empty run, no two adjacent runs that  *)
(* can be merged), so two memories are equal iff their cells are equal.    *)
(***************************************************************************)
EXTENDS Integers, Sequences, FiniteSets, TLC

(***************************************************************************)
(* Bounds of the model.                                                    *)
(***************************************************************************)
\* the allocator refuses any Array buffer of more than MaxCapacity elements
MaxCapacity == 4
\* number of Shtick::push calls in one behaviour
MaxPushes == 2
\* number of heap buffers the allocator hands out to Shticks in one behaviour
MaxAllocs == 2
\* number of operator and double_or_max calls made on one Count
MaxCountOps == 1
\* the greatest address of a byte of the model's memory
MaxAddress == 255

(***************************************************************************)
(* Memory cells.                                                           *)
(***************************************************************************)
Run(k, at, n) == [k |-> k, at |-> at, n |-> n]

\* n cells of kind k
MFill(k, at, n) == IF n <= 0 THEN << >> ELSE << Run(k, at, n) >>

\* can run b directly follow run a as one run?
Mergeable(a, b) ==
    /\ a.k = b.k
    /\ \/ a.k = "un"
       \/ a.k = "v" /\ a.at = b.at
       \/ a.k = "in" /\ b.at = a.at + a.n

\* concatenation, merging the runs that meet at the seam
MCat(a, b) ==
    IF a = << >> THEN b
    ELSE IF b = << >> THEN a
    ELSE IF Mergeable(a[Len(a)], b[1])
         THEN SubSeq(a, 1, Len(a) - 1)
              \o << Run(a[Len(a)].k, a[Len(a)].at, a[Len(a)].n + b[1].n) >>
              \o SubSeq(b, 2, Len(b))
         ELSE a \o b

RECURSIVE MLen(_)
\* number of cells
MLen(m) == IF m = << >> THEN 0 ELSE m[1].n + MLen(Tail(m))

RECURSIVE MTake(_, _)
\* the first n cells: &m[0..n]
MTake(m, n) ==
    IF n <= 0 \/ m = << >> THEN << >>
    ELSE IF m[1].n <= n THEN << m[1] >> \o MTake(Tail(m), n - m[1].n)
    ELSE << Run(m[1].k, m[1].at, n) >>

RECURSIVE MDrop(_, _)
\* all but the first n cells: &m[n..]
MDrop(m, n) ==
    IF m = << >> THEN << >>
    ELSE IF n <= 0 THEN m
    ELSE IF m[1].n <= n THEN MDrop(Tail(m), n - m[1].n)
    ELSE << Run(m[1].k, IF m[1].k = "in" THEN m[1].at + n ELSE m[1].at, m[1].n - n) >>
         \o Tail(m)

\* the cells offset .. offset+MLen(w)-1 replaced by w
MWrite(m, offset, w) ==
    MCat(MCat(MTake(m, offset), w), MDrop(m, offset + MLen(w)))

\* the cell at a (zero-based) offset inside m, as a one-cell memory
MAt(m, offset) == MTake(MDrop(m, offset), 1)

Uninit(n) == MFill("un", 0, n)
Value(v) == MFill("v", v, 1)
\* the byte string of length n handed to TryFrom<&[u8]>
InputBytes(n) == MFill("in", 0, n)

RECURSIVE NoUninit(_)
\* every cell of m holds a value
NoUninit(m) == m = << >> \/ (m[1].k # "un" /\ NoUninit(Tail(m)))

(***************************************************************************)
(* CountN<T>, on the stored (negated) field.  W is the bit width of T.     *)
(***************************************************************************)
RECURSIVE DivPow2(_, _)
\* floor(x / 2^e), in steps TLC's 32-bit integers can take
DivPow2(x, e) == IF e <= 30 THEN x \div (2^e) ELSE DivPow2(x \div (2^30), e - 30)

\* T::MIN, the stored field of CountN::MAX
SignedMIN(W) == -(2^(W - 1))
\* T::MAX_USIZE
MAX_USIZE(W) == 2^(W - 1)

\* wrapping of an arithmetic result into T (a build without overflow checks)
WrapSigned(x, W) == ((x + 2^(W - 1)) % (2^W)) - 2^(W - 1)
FitsSigned(x, W) == x >= -(2^(W - 1)) /\ x <= 2^(W - 1) - 1

\* CountN::of
Count_of(value) == -value

\* partial_cmp: the reverse of the stored field's order
Count_lt(a, b) == a > b
Count_le(a, b) == a >= b
Count_gt(a, b) == a < b
Count_ge(a, b) == a <= b
\* Ord::min under that order
Count_min(a, b) == IF Count_le(a, b) THEN a ELSE b

\* CountN::max_offset
max_offset(self) == -(self + 1)

\* contains taking the count itself for an offset
contains_inclusive(self, offset) == offset >= 0 /\ offset <= max_offset(self) + 1

\* CountN::contains
contains(self, offset) == offset >= 0 /\ offset <= max_offset(self)

\* Into<usize> for CountN (its assertion is checked by the callers)
into_usize(self) == max_offset(self) + 1

\* from_usize refusing the one extra magnitude MAX_USIZE as well
from_usize_refuses_max(value, W) ==
    IF value >= MAX_USIZE(W)
    THEN [result |-> "TooHigh", count |-> 0]
    ELSE [result |-> "Ok", count |-> -value]

\* CountN::from_usize
from_usize(value, W) ==
    IF value > MAX_USIZE(W)
    THEN [result |-> "TooHigh", count |-> 0]
    ELSE [result |-> "Ok", count |-> -value]

\* CountN::double_or_max.  `self.0 <= MAX.0 / TWO` is self.0 <= -2^(W-2), which
\* is floor(-self.0 / 2^(W-2)) >= 1.
double_or_max(self, min_value, W) ==
    IF DivPow2(-self, W - 2) >= 1 THEN SignedMIN(W)
    ELSE IF -min_value <= self * 2 THEN -min_value ELSE self * 2

(***************************************************************************)
(* Machine integers of up to 64 bits.  The model checker's integers are    *)
(* 32 bits wide, so an i64 or usize is held in three limbs << l2, l1, l0 >>*)
(* standing for l2 * 2^60 + l1 * 2^30 + l0, with l1 and l0 in 0..2^30 - 1  *)
(* and the sign in l2.  Every operator returns this normal form, so two    *)
(* numbers are equal iff their limbs are.                                  *)
(***************************************************************************)
Limb == 2^30

\* normal form of l2 * 2^60 + l1 * 2^30 + l0
WNorm(l2, l1, l0) ==
    << l2 + ((l1 + (l0 \div Limb)) \div Limb), (l1 + (l0 \div Limb)) % Limb, l0 % Limb >>

\* the number n
WInt(n) == WNorm(0, 0, n)
WAdd(a, b) == WNorm(a[1] + b[1], a[2] + b[2], a[3] + b[3])
WNeg(a) == WNorm(-a[1], -a[2], -a[3])
WSub(a, b) == WAdd(a, WNeg(b))
WLt(a, b) ==
    \/ a[1] < b[1]
    \/ a[1] = b[1] /\ a[2] < b[2]
    \/ a[1] = b[1] /\ a[2] = b[2] /\ a[3] < b[3]
WLe(a, b) == a = b \/ WLt(a, b)
WMin(a, b) == IF WLe(a, b) THEN a ELSE b

\* 2^e, for e in 0..89
WPow2(e) ==
    IF e < 30 THEN << 0, 0, 2^e >>
    ELSE IF e < 60 THEN << 0, 2^(e - 30), 0 >>
    ELSE << 2^(e - 60), 0, 0 >>

\* a mod 2^e
WModPow2(a, e) ==
    IF e < 30 THEN << 0, 0, a[3] % (2^e) >>
    ELSE IF e < 60 THEN << 0, a[2] % (2^(e - 30)), a[3] >>
    ELSE << a[1] % (2^(e - 60)), a[2], a[3] >>

\* does a fit the signed integer type of w bits?
WFits(a, w) == WLe(WNeg(WPow2(w - 1)), a) /\ WLt(a, WPow2(w - 1))
\* a wrapped into the signed integer type of w bits (`as`, wrapping arithmetic)
WWrap(a, w) == WSub(WModPow2(WAdd(a, WPow2(w - 1)), w), WPow2(w - 1))

\* the result x of an arithmetic operation on the signed type of w bits: with
\* overflow checks (a debug build) an overflow panics, without them it wraps
Arith(x, w, overflow_checks) ==
    [panic |-> overflow_checks /\ ~WFits(x, w), v |-> WWrap(x, w)]

\* the result x of an arithmetic operation on usize
ArithUsize(x, overflow_checks) ==
    [panic |-> overflow_checks /\ (WLt(x, WInt(0)) \/ WLe(WPow2(64), x)),
     v |-> WModPow2(x, 64)]

\* r, known to be below 2 * d, reduced below d
WRemReduced(r, d) == IF WLt(r, d) THEN r ELSE WSub(r, d)

RECURSIVE WRem(_, _)
\* a mod d for a >= 0 and d > 0: a mod 2d, less d when that is not below d
WRem(a, d) == IF WLt(a, d) THEN a ELSE WRemReduced(WRem(a, WAdd(d, d)), d)

\* a mod n for a >= 0 and n > 0.  A divisor of one limb is taken limb by
\* limb, ((a[1] mod n) * 2^30 + a[2]) mod n and so on, which keeps the
\* doubling of WRem short.
WRemAbs(a, n) ==
    IF n[1] = 0 /\ n[2] = 0
    THEN WRem(<< 0, WRem(<< 0, a[1] % n[3], a[2] >>, n)[3], a[3] >>, n)
    ELSE WRem(a, n)

\* the remainder m of -a, turned into the remainder of a
WRemNegated(m, n) == IF m = WInt(0) THEN m ELSE WSub(n, m)

\* i64::rem_euclid(a, n) for a divisor n > 0 (no overflow: n is not -1)
rem_euclid(a, n) ==
    IF WLe(WInt(0), a) THEN WRemAbs(a, n) ELSE WRemNegated(WRemAbs(WNeg(a), n), n)

(***************************************************************************)
(* CountN<T> and Index at their full width: the stored field, the offsets  *)
(* and the usize values are machine integers, and every arithmetic step of *)
(* the code is taken with its overflow.  w is the bit width of T;          *)
(* overflow_checks tells whether the build panics on overflow.  A function *)
(* returns its value together with `result`, which is "panic" when an      *)
(* assertion, an unwrap or a checked operation fails.                      *)
(***************************************************************************)
\* CountN::MAX, the stored field T::MIN
CountN_MAX(w) == WNeg(WPow2(w - 1))
\* T::MAX_USIZE
CountN_MAX_USIZE(w) == WPow2(w - 1)

Counted(result, count) == [result |-> result, count |-> count]

\* CountN::of, for a value of T
CountN_of(value) ==
    IF WLt(value, WInt(0)) THEN Counted("panic", WInt(0))
    ELSE Counted("Ok", WNeg(value))

\* Default for CountN
CountN_default == Counted("Ok", WInt(0))

\* the end of from_usize: T::from(negated).unwrap()
from_usize_negated(n, w) ==
    IF n.panic \/ ~WFits(n.v, w) THEN Counted("panic", WInt(0))
    ELSE Counted("Ok", n.v)

\* CountN::from_usize: Self(T::from(-(value as i64)).unwrap())
CountN_from_usize(value, w, overflow_checks) ==
    IF WLt(CountN_MAX_USIZE(w), value) THEN Counted("TooHigh", WInt(0))
    ELSE from_usize_negated(Arith(WNeg(WWrap(value, 64)), 64, overflow_checks), w)

\* double_or_max taking the greater stored field, the smaller count
double_or_max_smaller(negated, doubled) ==
    IF negated.panic \/ doubled.panic THEN Counted("panic", WInt(0))
    ELSE Counted("Ok", IF WLe(negated.v, doubled.v) THEN doubled.v ELSE negated.v)

\* the end of double_or_max: T::from(-min_value).unwrap().min(self.0 * TWO)
double_or_max_min(negated, doubled) ==
    IF negated.panic \/ doubled.panic THEN Counted("panic", WInt(0))
    ELSE Counted("Ok", WMin(negated.v, doubled.v))

\* CountN::double_or_max, min_value an i8; MAX.0 / TWO is -2^(w-2)
CountN_double_or_max(self, min_value, w, overflow_checks) ==
    IF WLe(self, WNeg(WPow2(w - 2))) THEN Counted("Ok", CountN_MAX(w))
    ELSE double_or_max_min(Arith(WNeg(min_value), 8, overflow_checks),
                           Arith(WAdd(self, self), w, overflow_checks))

Offsetted(result, offset) == [result |-> result, offset |-> offset]

\* the end of max_offset: the negation of self.0 + 1
max_offset_negated(incremented, overflow_checks) ==
    IF incremented.panic
       \/ Arith(WNeg(incremented.v), 64, overflow_checks).panic
    THEN Offsetted("panic", WInt(0))
    ELSE Offsetted("Ok", Arith(WNeg(incremented.v), 64, overflow_checks).v)

\* max_offset without its `+ 1`: the count itself
CountN_max_offset_is_count(self, overflow_checks) ==
    max_offset_negated(Arith(self, 64, overflow_checks), overflow_checks)

\* CountN::max_offset: -(self.0.to_i64().unwrap() + 1)
CountN_max_offset(self, overflow_checks) ==
    max_offset_negated(Arith(WAdd(self, WInt(1)), 64, overflow_checks), overflow_checks)

\* CountN::contains: offset >= 0 && offset <= self.max_offset()
CountN_contains(self, offset, overflow_checks) ==
    IF WLt(offset, WInt(0)) THEN [result |-> "Ok", value |-> FALSE]
    ELSE IF CountN_max_offset(self, overflow_checks).result = "panic"
    THEN [result |-> "panic", value |-> FALSE]
    ELSE [result |-> "Ok",
          value |-> WLe(offset, CountN_max_offset(self, overflow_checks).offset)]

\* Into<usize> for CountN: assert!(self.0 <= 0), then
\* (Wrapping(self.max_offset()) + Wrapping(1)).0 as usize
CountN_into_usize(self) ==
    IF WLt(WInt(0), self) THEN [result |-> "panic", value |-> WInt(0)]
    ELSE [result |-> "Ok",
          value |-> WModPow2(WWrap(WAdd(CountN_max_offset(self, FALSE).offset, WInt(1)),
                                   64), 64)]

\* partial_cmp of CountN: the reverse of the stored fields' order
CountN_gt(a, b) == WLt(a, b)

\* the operators +, -, += and -= with a primitive or a Count operand; the
\* assigning ones end with assert!(self.0 <= T::zero())
CountOperators ==
    {"Add<T>", "Add<Self>", "AddAssign<T>", "AddAssign<Self>",
     "Sub<T>", "Sub<Self>", "SubAssign<T>", "SubAssign<Self>"}

\* the outcome of an operator whose arithmetic gave x
CountN_operated(operator, x) ==
    IF x.panic THEN Counted("panic", WInt(0))
    ELSE IF operator \in {"AddAssign<T>", "AddAssign<Self>", "SubAssign<T>", "SubAssign<Self>"}
            /\ WLt(WInt(0), x.v)
    THEN Counted("panic", WInt(0))
    ELSE Counted("Ok", x.v)

\* self <operator> other, other being the primitive or the other Count's
\* stored field: adding a primitive subtracts it from the stored field
CountN_operator(operator, self, other, w, overflow_checks) ==
    CountN_operated(operator,
        Arith(IF operator \in {"Add<T>", "AddAssign<T>", "Sub<Self>", "SubAssign<Self>"}
              THEN WSub(self, other) ELSE WAdd(self, other),
              w, overflow_checks))

Checked(result, offset, increases_count) ==
    [result |-> result, offset |-> offset, increases_count |-> increases_count]

\* Index::Of(value) with a negative value, after `-value`
check_offset_of_negative(negated, sequence_size) ==
    IF negated.panic THEN Checked("panic", WInt(0), FALSE)
    ELSE IF WLe(WModPow2(negated.v, 64), sequence_size)
    THEN Checked("Ok", WWrap(WSub(sequence_size, WModPow2(negated.v, 64)), 64), FALSE)
    ELSE Checked("OutOfBounds", WInt(0), FALSE)

\* Index::Of(value) with `>` for the `>=` of increases_count
check_offset_of_above_count(value, sequence_size, overflow_checks) ==
    IF WLe(WInt(0), value)
    THEN Checked("Ok", value, WLt(sequence_size, WModPow2(value, 64)))
    ELSE check_offset_of_negative(Arith(WNeg(value), 64, overflow_checks), sequence_size)

\* Index::Of(value), sequence_size already a usize
check_offset_of(value, sequence_size, overflow_checks) ==
    IF WLe(WInt(0), value)
    THEN Checked("Ok", value, WLe(sequence_size, WModPow2(value, 64)))
    ELSE check_offset_of_negative(Arith(WNeg(value), 64, overflow_checks), sequence_size)

\* Index::InBounds(value)
check_offset_in_bounds(value, sequence_size, overflow_checks) ==
    IF CountN_contains(sequence_size, value, overflow_checks).result = "panic"
    THEN Checked("panic", WInt(0), FALSE)
    ELSE IF CountN_contains(sequence_size, value, overflow_checks).value
    THEN Checked("Ok", value, FALSE)
    ELSE Checked("OutOfBounds", WInt(0), FALSE)

\* the branch below without its `- 1`
check_offset_wrap_negative_at_max_off_by_one(negated, sequence_size, overflow_checks) ==
    IF negated.panic \/ ~WLt(WModPow2(negated.v, 64), CountN_MAX_USIZE(64))
       \/ ArithUsize(WSub(sequence_size, WModPow2(negated.v, 64)), overflow_checks).panic
    THEN Checked("panic", WInt(0), FALSE)
    ELSE Checked("Ok",
                 WWrap(ArithUsize(WSub(sequence_size, WModPow2(negated.v, 64)),
                                  overflow_checks).v, 64),
                 FALSE)

\* Index::Wrap(value) with a negative value on a sequence of Count::MAX_USIZE
\* elements, after `-(value + 1)`: the assertion, then
\* (sequence_size - (-(value + 1)) as usize - 1) as i64
check_offset_wrap_negative_at_max(negated, sequence_size, overflow_checks) ==
    IF negated.panic \/ ~WLt(WModPow2(negated.v, 64), CountN_MAX_USIZE(64))
       \/ ArithUsize(WSub(sequence_size, WModPow2(negated.v, 64)), overflow_checks).panic
       \/ ArithUsize(WSub(ArithUsize(WSub(sequence_size, WModPow2(negated.v, 64)),
                                     overflow_checks).v, WInt(1)), overflow_checks).panic
    THEN Checked("panic", WInt(0), FALSE)
    ELSE Checked("Ok",
                 WWrap(ArithUsize(WSub(ArithUsize(WSub(sequence_size,
                                                       WModPow2(negated.v, 64)),
                                                  overflow_checks).v, WInt(1)),
                                  overflow_checks).v, 64),
                 FALSE)

\* Index::Wrap(value) that wraps the negative values only
check_offset_wrap_negative_only(value, sequence_size, overflow_checks) ==
    IF WLe(sequence_size, WInt(0)) THEN Checked("EmptySequence", WInt(0), FALSE)
    ELSE IF WLe(WInt(0), value) THEN Checked("Ok", value, FALSE)
    ELSE IF sequence_size = CountN_MAX_USIZE(64)
    THEN check_offset_wrap_negative_at_max(
             Arith(WNeg(Arith(WAdd(value, WInt(1)), 64, overflow_checks).v), 64,
                   overflow_checks),
             sequence_size, overflow_checks)
    ELSE Checked("Ok", rem_euclid(value, WWrap(sequence_size, 64)), FALSE)

\* Index::Wrap(value), sequence_size already a usize
check_offset_wrap(value, sequence_size, overflow_checks) ==
    IF WLe(sequence_size, WInt(0)) THEN Checked("EmptySequence", WInt(0), FALSE)
    ELSE IF sequence_size = CountN_MAX_USIZE(64)
    THEN IF WLe(WInt(0), value)
         THEN IF WLt(WModPow2(value, 64), CountN_MAX_USIZE(64))
              THEN Checked("Ok", value, FALSE)
              ELSE Checked("panic", WInt(0), FALSE)
         ELSE check_offset_wrap_negative_at_max(
                  Arith(WNeg(Arith(WAdd(value, WInt(1)), 64, overflow_checks).v), 64,
                        overflow_checks),
                  sequence_size, overflow_checks)
    ELSE Checked("Ok", rem_euclid(value, WWrap(sequence_size, 64)), FALSE)

\* Index::Ordinal(count)
check_offset_ordinal(count, sequence_size, overflow_checks) ==
    IF CountN_max_offset(count, overflow_checks).result = "panic"
    THEN Checked("panic", WInt(0), FALSE)
    ELSE IF WLe(WInt(0), CountN_max_offset(count, overflow_checks).offset)
    THEN Checked("Ok", CountN_max_offset(count, overflow_checks).offset,
                 CountN_gt(count, sequence_size))
    ELSE Checked("InvalidOrdinal", WInt(0), FALSE)

\* Index::check_offset; kind is "Of", "InBounds", "Wrap" or "Ordinal", value
\* the i64 of the index or the stored field of the ordinal's Count, and
\* sequence_size the stored field of a Count (CountN<i64>)
Index_check_offset(kind, value, sequence_size, overflow_checks) ==
    IF kind = "InBounds" THEN check_offset_in_bounds(value, sequence_size, overflow_checks)
    ELSE IF kind = "Ordinal" THEN check_offset_ordinal(value, sequence_size, overflow_checks)
    ELSE IF CountN_into_usize(sequence_size).result = "panic"
    THEN Checked("panic", WInt(0), FALSE)
    ELSE IF kind = "Of"
    THEN check_offset_of(value, CountN_into_usize(sequence_size).value, overflow_checks)
    ELSE check_offset_wrap(value, CountN_into_usize(sequence_size).value, overflow_checks)

(***************************************************************************)
(* AllocationN<T, C>.  `ptr` is the memory behind the pointer (<< >> when   *)
(* dangling), `capacity` the stored count; `grant` tells whether the       *)
(* allocator satisfies the request of this call.                           *)
(***************************************************************************)
\* AllocationN::new
Allocation_new == [ptr |-> << >>, capacity |-> Count_of(0)]

\* mut_capacity that takes the new capacity before the allocator has answered
allocation_mut_capacity_eager(new_capacity, ptr, capacity, grant) ==
    IF Count_le(new_capacity, Count_of(0))
    THEN IF Count_gt(capacity, Count_of(0))
         THEN [ptr |-> << >>, capacity |-> Count_of(0), result |-> "Ok", call |-> "dealloc"]
         ELSE [ptr |-> ptr, capacity |-> capacity, result |-> "Ok", call |-> "none"]
    ELSE IF new_capacity = capacity
    THEN [ptr |-> ptr, capacity |-> capacity, result |-> "Ok", call |-> "none"]
    ELSE IF ~grant
    THEN [ptr |-> ptr, capacity |-> new_capacity, result |-> "OutOfMemory",
          call |-> IF capacity = Count_of(0) THEN "alloc" ELSE "realloc"]
    ELSE IF capacity = Count_of(0)
    THEN [ptr |-> Uninit(into_usize(new_capacity)), capacity |-> new_capacity,
          result |-> "Ok", call |-> "alloc"]
    ELSE [ptr |-> MCat(MTake(ptr, into_usize(Count_min(capacity, new_capacity))),
                       Uninit(into_usize(new_capacity) - into_usize(capacity))),
          capacity |-> new_capacity, result |-> "Ok", call |-> "realloc"]

\* mut_capacity whose target 0 resets the capacity and keeps the buffer
allocation_mut_capacity_keeps_buffer(new_capacity, ptr, capacity, grant) ==
    IF Count_le(new_capacity, Count_of(0))
    THEN [ptr |-> ptr, capacity |-> Count_of(0), result |-> "Ok", call |-> "none"]
    ELSE IF new_capacity = capacity
    THEN [ptr |-> ptr, capacity |-> capacity, result |-> "Ok", call |-> "none"]
    ELSE IF ~grant
    THEN [ptr |-> ptr, capacity |-> capacity, result |-> "OutOfMemory",
          call |-> IF capacity = Count_of(0) THEN "alloc" ELSE "realloc"]
    ELSE IF capacity = Count_of(0)
    THEN [ptr |-> Uninit(into_usize(new_capacity)), capacity |-> new_capacity,
          result |-> "Ok", call |-> "alloc"]
    ELSE [ptr |-> MCat(MTake(ptr, into_usize(Count_min(capacity, new_capacity))),
                       Uninit(into_usize(new_capacity) - into_usize(capacity))),
          capacity |-> new_capacity, result |-> "Ok", call |-> "realloc"]

allocation_mut_capacity(new_capacity, ptr, capacity, grant) ==
    IF Count_le(new_capacity, Count_of(0))
    THEN IF Count_gt(capacity, Count_of(0))
         THEN [ptr |-> << >>, capacity |-> Count_of(0), result |-> "Ok", call |-> "dealloc"]
         ELSE [ptr |-> ptr, capacity |-> capacity, result |-> "Ok", call |-> "none"]
    ELSE IF new_capacity = capacity
    THEN [ptr |-> ptr, capacity |-> capacity, result |-> "Ok", call |-> "none"]
    ELSE IF ~grant
    THEN [ptr |-> ptr, capacity |-> capacity, result |-> "OutOfMemory",
          call |-> IF capacity = Count_of(0) THEN "alloc" ELSE "realloc"]
    ELSE IF capacity = Count_of(0)
    THEN [ptr |-> Uninit(into_usize(new_capacity)), capacity |-> new_capacity,
          result |-> "Ok", call |-> "alloc"]
    ELSE [ptr |-> MCat(MTake(ptr, into_usize(Count_min(capacity, new_capacity))),
                       Uninit(into_usize(new_capacity) - into_usize(capacity))),
          capacity |-> new_capacity, result |-> "Ok", call |-> "realloc"]

\* a growth policy that starts from 1 slot
roughly_double_capacity_from_one(capacity, W) == double_or_max(capacity, 1, W)

\* AllocationN::roughly_double_capacity
roughly_double_capacity(capacity, W) == double_or_max(capacity, 2, W)

allocation_grow(ptr, capacity, grant, W) ==
    IF Count_le(roughly_double_capacity(capacity, W), capacity)
    THEN [ptr |-> ptr, capacity |-> capacity, result |-> "OutOfMemory", call |-> "none"]
    ELSE allocation_mut_capacity(roughly_double_capacity(capacity, W), ptr, capacity, grant)

\* ptr::write into the slot, unless the offset is outside the capacity
allocation_write_uninitialized(offset, value, ptr, capacity) ==
    IF ~contains(capacity, offset)
    THEN [ptr |-> ptr, result |-> "InvalidOffset"]
    ELSE [ptr |-> MWrite(ptr, offset, Value(value)), result |-> "Ok"]

\* ptr::read moves the cell out of the slot ("from now on, that offset should
\* be considered uninitialized"), unless the offset is outside the capacity
allocation_read_destructively(offset, ptr, capacity) ==
    IF ~contains(capacity, offset)
    THEN [ptr |-> ptr, value |-> << >>, result |-> "InvalidOffset"]
    ELSE [ptr |-> MWrite(ptr, offset, Uninit(1)), value |-> MAt(ptr, offset),
          result |-> "Ok"]

(***************************************************************************)
(* Array<T>: count and capacity are Count (CountN<i64>), the allocation is *)
(* the memory behind its pointer.  Every operation returns the Array after *)
(* the call together with its result ("panic" when an expect or an         *)
(* assertion fails).                                                       *)
(***************************************************************************)
\* bit width of Count = CountN<i64>
CountWidth == 64
\* element values pushed by the callers, and T::default() of the element type
Elements == {1, 2}
DefaultElement == 0

\* an Array together with the outcome of the call that produced it: result
\* is "Ok", "Allocation(OutOfMemory)" or "panic"; ret is what a pop returned,
\* << >> for None and the one cell moved out for Some
Arr(count, capacity, allocation, result, ret) ==
    [count |-> count, capacity |-> capacity, allocation |-> allocation,
     result |-> result, ret |-> ret]

\* what the model records, in place of a result, when a call of the Array
\* breaks the contract of its Allocation: ptr::read of a slot whose element
\* was already moved out, ptr::write over a slot that holds an element, and
\* a realloc or dealloc that gives up a slot that holds an element
Misused == {"moved out twice", "overwrote live", "released live"}

\* Array::new
Array_new == Arr(Count_of(0), Count_of(0), << >>, "Ok", << >>)

\* the allocator satisfies a request iff it has the memory (grant) and the
\* request is within the memory the model gives it
Granted(grant, new_capacity) == grant /\ into_usize(new_capacity) <= MaxCapacity

array_grow(A, grant) ==
    allocation_grow(A.allocation, A.capacity,
                    Granted(grant, roughly_double_capacity(A.capacity, CountWidth)),
                    CountWidth)

\* array_push after `*count += 1`: the write into the slot at the new count's
\* max_offset has returned w (expect("should be in bounds"))
array_push_written(count, capacity, w) ==
    Arr(count, capacity, w.ptr, IF w.result = "Ok" THEN "Ok" ELSE "panic", << >>)

\* array_push that writes the value and forgets `*count += 1`
array_push_grown_keeps_count(value, A, g) ==
    IF g.result # "Ok"
    THEN Arr(A.count, g.capacity, g.ptr, "Allocation(OutOfMemory)", << >>)
    ELSE array_push_written(A.count, g.capacity,
             allocation_write_uninitialized(max_offset(A.count - 1), value, g.ptr,
                                            g.capacity))

\* array_push doing `*count += 1` before the growth step
array_push_counts_before_grow(value, A, g) ==
    IF g.result # "Ok"
    THEN Arr(A.count - 1, g.capacity, g.ptr, "Allocation(OutOfMemory)", << >>)
    ELSE array_push_written(A.count - 1, g.capacity,
             allocation_write_uninitialized(max_offset(A.count - 1), value, g.ptr,
                                            g.capacity))

\* the write of array_push, `count` being the count after `*count += 1`
array_push_write(value, count, g) ==
    IF contains(g.capacity, max_offset(count)) /\ MAt(g.ptr, max_offset(count)) # Uninit(1)
    THEN Arr(count, g.capacity, g.ptr, "overwrote live", << >>)
    ELSE array_push_written(count, g.capacity,
             allocation_write_uninitialized(max_offset(count), value, g.ptr,
                                            g.capacity))

\* array_push after its growth step, which left g = [ptr, capacity, result]
array_push_grown(value, A, g) ==
    IF g.result # "Ok"
    THEN Arr(A.count, g.capacity, g.ptr, "Allocation(OutOfMemory)", << >>)
    ELSE array_push_write(value, A.count - 1, g)

\* array_push without the growth at count = capacity
array_push_without_grow(value, A, grant) ==
    array_push_grown(value, A,
        [ptr |-> A.allocation, capacity |-> A.capacity, result |-> "Ok"])

array_push(value, A, grant) ==
    array_push_grown(value, A,
        IF A.capacity = A.count
        THEN array_grow(A, grant)
        ELSE [ptr |-> A.allocation, capacity |-> A.capacity, result |-> "Ok"])

\* array_pop_last after read_destructively has returned r
\* (expect("should be in bounds")), then `*count -= 1`
array_pop_last_read(A, r) ==
    IF r.result # "Ok"
    THEN Arr(A.count, A.capacity, A.allocation, "panic", << >>)
    ELSE IF r.value = Uninit(1)
    THEN Arr(A.count, A.capacity, r.ptr, "moved out twice", << >>)
    ELSE Arr(A.count + 1, A.capacity, r.ptr, "Ok", r.value)

\* array_pop_last reading the first slot instead of the last
array_pop_last_reads_first(A) ==
    IF Count_le(A.count, Count_of(0))
    THEN Arr(A.count, A.capacity, A.allocation, "Ok", << >>)
    ELSE array_pop_last_read(A,
             allocation_read_destructively(0, A.allocation, A.capacity))

\* array_pop_last reading the slot after the last
array_pop_last_reads_past_end(A) ==
    IF Count_le(A.count, Count_of(0))
    THEN Arr(A.count, A.capacity, A.allocation, "Ok", << >>)
    ELSE array_pop_last_read(A,
             allocation_read_destructively(max_offset(A.count) + 1, A.allocation,
                                           A.capacity))

\* array_pop_last without `*count -= 1`
array_pop_last_keeps_count(A) ==
    IF Count_le(A.count, Count_of(0))
    THEN Arr(A.count, A.capacity, A.allocation, "Ok", << >>)
    ELSE array_pop_last_read(Arr(A.count - 1, A.capacity, A.allocation, "Ok", << >>),
             allocation_read_destructively(max_offset(A.count), A.allocation,
                                           A.capacity))

array_pop_last(A) ==
    IF Count_le(A.count, Count_of(0))
    THEN Arr(A.count, A.capacity, A.allocation, "Ok", << >>)
    ELSE array_pop_last_read(A,
             allocation_read_destructively(max_offset(A.count), A.allocation,
                                           A.capacity))

RECURSIVE PopWhileAbove(_, _)
\* one turn of the loop below, p being what array_pop_last left
PopWhileAbove_popped(p, new_count) ==
    IF p.result # "Ok" \/ p.ret = << >>
    THEN Arr(p.count, p.capacity, p.allocation, p.result, << >>)
    ELSE PopWhileAbove(p, new_count)

\* while *count > new_count { array_pop_last } (leaving the loop on None)
PopWhileAbove(A, new_count) ==
    IF ~Count_gt(A.count, new_count)
    THEN Arr(A.count, A.capacity, A.allocation, "Ok", << >>)
    ELSE PopWhileAbove_popped(array_pop_last(A), new_count)

\* the end of array_mut_capacity: allocation.mut_capacity has returned r
array_mut_capacity_resized(count, r) ==
    Arr(count, r.capacity, r.ptr,
        IF r.result = "Ok" THEN "Ok" ELSE "Allocation(OutOfMemory)", << >>)

\* allocation.mut_capacity has returned r: the slots from new_capacity on
\* are gone when it shrank or released the buffer
array_mut_capacity_released(new_capacity, popped, r) ==
    IF /\ r.result = "Ok"
       /\ r.call \in {"realloc", "dealloc"}
       /\ MDrop(popped.allocation, into_usize(new_capacity))
            # Uninit(MLen(MDrop(popped.allocation, into_usize(new_capacity))))
    THEN Arr(popped.count, r.capacity, r.ptr, "released live", << >>)
    ELSE array_mut_capacity_resized(popped.count, r)

\* array_mut_capacity after its pop loop, which left the Array popped
array_mut_capacity_popped(new_capacity, popped, grant) ==
    IF popped.result # "Ok"
    THEN popped
    ELSE array_mut_capacity_released(new_capacity, popped,
             allocation_mut_capacity(new_capacity, popped.allocation, popped.capacity,
                                     Granted(grant, new_capacity)))

\* array_mut_capacity that pops every element before it resizes
array_mut_capacity_pops_all(new_capacity, A, grant) ==
    IF new_capacity = A.capacity
    THEN Arr(A.count, A.capacity, A.allocation, "Ok", << >>)
    ELSE array_mut_capacity_popped(new_capacity, PopWhileAbove(A, Count_of(0)), grant)

array_mut_capacity(new_capacity, A, grant) ==
    IF new_capacity = A.capacity
    THEN Arr(A.count, A.capacity, A.allocation, "Ok", << >>)
    ELSE array_mut_capacity_popped(new_capacity, PopWhileAbove(A, new_capacity), grant)

\* the end of array_clear: the result is "panic" when the expect or the final
\* assert!(*count == Count::of(0)) fails
array_clear_asserted(r) ==
    Arr(r.count, r.capacity, r.allocation,
        IF r.result \in Misused THEN r.result
        ELSE IF r.result = "Ok" /\ r.count = Count_of(0) THEN "Ok" ELSE "panic", << >>)

\* array_clear whose KeepCapacity pops nothing
array_clear_keeps_elements(options, A, grant) ==
    array_clear_asserted(IF options = "KeepCapacity"
                         THEN A
                         ELSE array_mut_capacity(Count_of(0), A, grant))

\* options is "KeepCapacity" or "DropCapacity"
array_clear(options, A, grant) ==
    array_clear_asserted(IF options = "KeepCapacity"
                         THEN PopWhileAbove(A, Count_of(0))
                         ELSE array_mut_capacity(Count_of(0), A, grant))

RECURSIVE PushDefaults(_, _, _)
\* one turn of the loop below, p being what array_push left
\* (expect("already allocated enough above"))
PushDefaults_pushed(p, new_count, grant) ==
    IF p.result # "Ok"
    THEN Arr(p.count, p.capacity, p.allocation,
             IF p.result \in Misused THEN p.result ELSE "panic", << >>)
    ELSE PushDefaults(p, new_count, grant)

\* the loop below pushing the value 1 for Default::default()
PushDefaults_of_ones(A, new_count, grant) ==
    IF ~Count_lt(A.count, new_count)
    THEN Arr(A.count, A.capacity, A.allocation, "Ok", << >>)
    ELSE PushDefaults_pushed(array_push(1, A, grant), new_count, grant)

\* while *count < new_count { array_push(Default::default()).expect(..) }
PushDefaults(A, new_count, grant) ==
    IF ~Count_lt(A.count, new_count)
    THEN Arr(A.count, A.capacity, A.allocation, "Ok", << >>)
    ELSE PushDefaults_pushed(array_push(DefaultElement, A, grant), new_count, grant)

\* array_mut_count towards a larger count, after the `?` on array_mut_capacity
array_mut_count_grown(new_count, grown, grant) ==
    IF grown.result # "Ok" THEN grown ELSE PushDefaults(grown, new_count, grant)

array_mut_count(new_count, A, grant) ==
    IF Count_lt(new_count, A.count)
    THEN PopWhileAbove(A, new_count)
    ELSE IF Count_gt(new_count, A.count)
    THEN array_mut_count_grown(new_count,
             IF Count_gt(new_count, A.capacity)
             THEN array_mut_capacity(new_count, A, grant)
             ELSE Arr(A.count, A.capacity, A.allocation, "Ok", << >>),
             grant)
    ELSE Arr(A.count, A.capacity, A.allocation, "Ok", << >>)

\* Deref for Array: the live slice, allocation.as_slice(count) (asserts count <= capacity)
Array_deref(A) == MTake(A.allocation, into_usize(A.count))

(***************************************************************************)
(* The system allocator, as Shticks see it: heap[p] is the buffer the      *)
(* pointer p names, [state, bytes] with state "unused" (never handed out), *)
(* "live", "freed" or "double freed".  Pointer 0 is NonNull::dangling().   *)
(***************************************************************************)
Pointers == 1..MaxAllocs
Block(state, bytes) == [state |-> state, bytes |-> bytes]

\* the pointer alloc::alloc returns next, 0 when the allocator has none left
FreshPointer(heap) ==
    IF \E p \in Pointers : heap[p].state = "unused"
    THEN CHOOSE p \in Pointers :
            /\ heap[p].state = "unused"
            /\ \A q \in Pointers : heap[q].state = "unused" => p <= q
    ELSE 0

\* AllocationN::<u8, i16>::new: a dangling pointer and capacity 0
Allocation16_new == [ptr |-> 0, capacity |-> Count_of(0)]

LivePointers(heap) == {p \in Pointers : heap[p].state = "live"}

\* the heap once no Allocation holds the pointer p any more: the buffer stays
\* as the allocator has it, its bytes can no longer be read and are not kept
Unreferenced(heap, p) == [heap EXCEPT ![p] = Block(heap[p].state, << >>)]

\* the allocator's bookkeeping of the call mut_capacity has made: r is what
\* allocation_mut_capacity returned, fresh the pointer alloc::alloc gives
Allocation16_booked(a, heap, fresh, r) ==
    IF r.result # "Ok" \/ r.call = "none"
    THEN [allocation |-> a, heap |-> heap, result |-> r.result]
    ELSE IF r.call = "alloc"
    THEN [allocation |-> [ptr |-> fresh, capacity |-> r.capacity],
          heap |-> [heap EXCEPT ![fresh] = Block("live", r.ptr)],
          result |-> "Ok"]
    ELSE IF r.call = "realloc"
    THEN [allocation |-> [ptr |-> a.ptr, capacity |-> r.capacity],
          heap |-> [heap EXCEPT ![a.ptr] = Block(heap[a.ptr].state, r.ptr)],
          result |-> "Ok"]
    ELSE [allocation |-> [ptr |-> 0, capacity |-> r.capacity],
          heap |-> [heap EXCEPT ![a.ptr] =
                      Block(IF heap[a.ptr].state = "live" THEN "freed"
                            ELSE "double freed", << >>)],
          result |-> "Ok"]

\* AllocationN<u8, i16>::mut_capacity on the allocation a = [ptr, capacity]
Allocation16_mut_capacity(a, new_capacity, heap, grant) ==
    Allocation16_booked(a, heap, FreshPointer(heap),
        allocation_mut_capacity(new_capacity,
                                IF a.ptr \in Pointers THEN heap[a.ptr].bytes ELSE << >>,
                                a.capacity,
                                grant /\ (a.capacity = Count_of(0)
                                            => FreshPointer(heap) # 0)))

(***************************************************************************)
(* Shtick.  special_count is the i16 tag; maybe_allocated is the union,    *)
(* [view, unallocated_buffer, allocation] where view names the member      *)
(* written last and the other member holds no meaningful bytes.            *)
(***************************************************************************)
\* bit width of Count16 = CountN<i16>
Count16Width == 16
UNALLOCATED16 == 14
SHORT_NEXT_POWER_OF_2 == 16
UNALLOCATED_ZERO_SPECIAL_COUNT == 1

\* Count16::negated, Count16::as_negated (the stored field) and Count16::as_usize
negated(value) == value
as_negated(self) == self
as_usize(self) == into_usize(self)

\* Add<Self> for CountN<i16>: the sum of the stored fields, wrapped into i16
\* (a build without overflow checks)
Count16_add(a, b) == WrapSigned(a + b, Count16Width)
\* does the addition overflow (a build with overflow checks panics)?
Count16_add_overflows(a, b) == ~FitsSigned(a + b, Count16Width)

max_unallocated_count == Count_of(UNALLOCATED16)

InlineView(bytes) ==
    [view |-> "unallocated_buffer", unallocated_buffer |-> bytes,
     allocation |-> Allocation16_new]
HeapView(a) ==
    [view |-> "allocation", unallocated_buffer |-> Uninit(UNALLOCATED16),
     allocation |-> a]

\* a Shtick, the allocator's heap and the outcome of the call that produced
\* them: "Ok", "TooLarge", "Allocation(OutOfMemory)" or "panic"
Sh(special_count, maybe_allocated, heap, result) ==
    [special_count |-> special_count, maybe_allocated |-> maybe_allocated,
     heap |-> heap, result |-> result]

\* Shtick::new
Shtick_new(heap) ==
    Sh(UNALLOCATED_ZERO_SPECIAL_COUNT, InlineView(MFill("v", 0, UNALLOCATED16)), heap, "Ok")

is_allocated(S) == S.special_count < UNALLOCATED_ZERO_SPECIAL_COUNT
is_unallocated(S) == ~is_allocated(S)
\* the assertion of is_allocated holds
is_allocated_asserted(S) ==
    is_allocated(S) \/ S.special_count - UNALLOCATED_ZERO_SPECIAL_COUNT <= UNALLOCATED16

\* Shtick::count
Shtick_count(S) ==
    IF S.special_count >= UNALLOCATED_ZERO_SPECIAL_COUNT
    THEN Count_of(S.special_count - UNALLOCATED_ZERO_SPECIAL_COUNT)
    ELSE negated(S.special_count)

count_unallocated(S) == Count_of(S.special_count - UNALLOCATED_ZERO_SPECIAL_COUNT)
count_allocated(S) == negated(S.special_count)

\* the special_count mut_count_unchecked_unallocated(new_count) sets
mut_count_unchecked_unallocated(new_count) ==
    UNALLOCATED_ZERO_SPECIAL_COUNT + (-as_negated(new_count))
\* the special_count mut_count_unchecked_allocated(new_count) sets
mut_count_unchecked_allocated(new_count) == as_negated(new_count)

\* Shtick::capacity
Shtick_capacity(S) ==
    IF is_allocated(S) THEN S.maybe_allocated.allocation.capacity
    ELSE max_unallocated_count

\* the slice an Allocation16<u8> derefs to: its whole buffer
Allocation_deref(a, heap) == IF a.ptr \in Pointers THEN heap[a.ptr].bytes ELSE << >>

\* Shtick::as_slice: the full allocated range
Shtick_as_slice(S) ==
    IF is_allocated(S) THEN Allocation_deref(S.maybe_allocated.allocation, S.heap)
    ELSE S.maybe_allocated.unallocated_buffer

\* Deref for Shtick: &self.as_slice()[0..self.count().into()]
Shtick_deref(S) == MTake(Shtick_as_slice(S), into_usize(Shtick_count(S)))

\* the Shtick after mut_just_count(new_count), which asserts new_count <= capacity
mut_just_count(S, new_count) ==
    IF ~Count_le(new_count, Shtick_capacity(S)) \/ ~is_allocated_asserted(S)
    THEN Sh(S.special_count, S.maybe_allocated, S.heap, "panic")
    ELSE Sh(IF is_allocated(S) THEN mut_count_unchecked_allocated(new_count)
            ELSE mut_count_unchecked_unallocated(new_count),
            S.maybe_allocated, S.heap, "Ok")

\* the Shtick with w written into as_slice_mut()[offset .. offset + MLen(w)]
\* (the slice index panics when the range is outside the slice)
write_slice(S, offset, w) ==
    LET a == S.maybe_allocated.allocation
    IN  IF offset + MLen(w) > MLen(Shtick_as_slice(S))
        THEN Sh(S.special_count, S.maybe_allocated, S.heap, "panic")
        ELSE IF w = << >>
        THEN Sh(S.special_count, S.maybe_allocated, S.heap, "Ok")
        ELSE IF is_allocated(S)
        THEN Sh(S.special_count, S.maybe_allocated,
                [S.heap EXCEPT ![a.ptr] =
                    Block(S.heap[a.ptr].state, MWrite(S.heap[a.ptr].bytes, offset, w))],
                "Ok")
        ELSE Sh(S.special_count,
                InlineView(MWrite(S.maybe_allocated.unallocated_buffer, offset, w)),
                S.heap, "Ok")

\* the branch below releasing the allocation it took and leaving the tag and
\* the union as they were
mut_capacity_heap_to_inline_frees_under_tag(S, new_capacity) ==
    Sh(S.special_count, S.maybe_allocated,
       Allocation16_mut_capacity(S.maybe_allocated.allocation, Count_of(0), S.heap,
                                 TRUE).heap,
       "Ok")

\* Shtick::mut_capacity, target unallocated, current Shtick allocated.  The
\* allocation is taken out of the union into a local, which goes out of scope
\* at the end of the branch; AllocationN has no Drop.
mut_capacity_heap_to_inline(S, new_capacity) ==
    LET allocation == S.maybe_allocated.allocation
        new_count == Count_min(count_allocated(S), new_capacity)
        special_count1 == mut_count_unchecked_unallocated(new_count)
    IN  IF special_count1 < UNALLOCATED_ZERO_SPECIAL_COUNT
           \/ into_usize(new_count) > into_usize(allocation.capacity)
        \* new_count is not a count: the tag still says allocated, and
        \* new_count.into() asserts (or a slice index is out of range)
        THEN Sh(special_count1, S.maybe_allocated, S.heap, "panic")
        ELSE Sh(special_count1,
                InlineView(MCat(MTake(Allocation_deref(allocation, S.heap),
                                      into_usize(new_count)),
                                Uninit(UNALLOCATED16 - into_usize(new_count)))),
                Unreferenced(S.heap, allocation.ptr), "Ok")

\* target unallocated, current Shtick unallocated
mut_capacity_inline_to_inline(S, new_capacity) ==
    Sh(IF Count_lt(new_capacity, count_unallocated(S))
       THEN mut_count_unchecked_unallocated(new_capacity)
       ELSE S.special_count,
       S.maybe_allocated, S.heap, "Ok")

\* heap-to-heap resize that forgets to truncate the count
mut_capacity_heap_to_heap_keeps_count(S, new_capacity, r) ==
    IF r.result # "Ok"
    THEN Sh(S.special_count, S.maybe_allocated, S.heap, "Allocation(OutOfMemory)")
    ELSE Sh(S.special_count, HeapView(r.allocation), r.heap, "Ok")

\* heap-to-heap resize that truncates the count before it looks at r
mut_capacity_heap_to_heap_truncates_first(S, new_capacity, r) ==
    Sh(IF Count_lt(new_capacity, count_allocated(S))
       THEN mut_count_unchecked_allocated(new_capacity)
       ELSE S.special_count,
       IF r.result # "Ok" THEN S.maybe_allocated ELSE HeapView(r.allocation),
       IF r.result # "Ok" THEN S.heap ELSE r.heap,
       IF r.result # "Ok" THEN "Allocation(OutOfMemory)" ELSE "Ok")

\* target allocated, current Shtick allocated, after allocation.mut_capacity
\* has returned r
mut_capacity_heap_to_heap_resized(S, new_capacity, r) ==
    IF r.result # "Ok"
    THEN Sh(S.special_count, S.maybe_allocated, S.heap, "Allocation(OutOfMemory)")
    ELSE Sh(IF Count_lt(new_capacity, count_allocated(S))
            THEN mut_count_unchecked_allocated(new_capacity)
            ELSE S.special_count,
            HeapView(r.allocation), r.heap, "Ok")

\* target allocated, current Shtick allocated
mut_capacity_heap_to_heap(S, new_capacity, grant) ==
    mut_capacity_heap_to_heap_resized(S, new_capacity,
        Allocation16_mut_capacity(S.maybe_allocated.allocation, new_capacity,
                                  S.heap, grant))

\* target allocated, current Shtick unallocated, after the new allocation's
\* mut_capacity has returned r: the live bytes are copied into it and it is
\* set into the union
mut_capacity_inline_to_heap_allocated(S, r) ==
    IF r.result # "Ok"
    THEN Sh(S.special_count, S.maybe_allocated, S.heap, "Allocation(OutOfMemory)")
    ELSE Sh(mut_count_unchecked_allocated(count_unallocated(S)),
            HeapView(r.allocation),
            [r.heap EXCEPT ![r.allocation.ptr] =
                Block("live", MWrite(r.heap[r.allocation.ptr].bytes, 0,
                                     Shtick_deref(S)))],
            "Ok")

\* target allocated, current Shtick unallocated
mut_capacity_inline_to_heap(S, new_capacity, grant) ==
    mut_capacity_inline_to_heap_allocated(S,
        Allocation16_mut_capacity(Allocation16_new, new_capacity, S.heap, grant))

\* mut_capacity that sends a target of exactly UNALLOCATED16 to the heap
Shtick_mut_capacity_strict_threshold(S, new_capacity, grant) ==
    IF ~is_allocated_asserted(S)
    THEN Sh(S.special_count, S.maybe_allocated, S.heap, "panic")
    ELSE IF Count_lt(new_capacity, max_unallocated_count)
    THEN IF is_allocated(S)
         THEN mut_capacity_heap_to_inline(S, new_capacity)
         ELSE mut_capacity_inline_to_inline(S, new_capacity)
    ELSE IF is_allocated(S)
         THEN mut_capacity_heap_to_heap(S, new_capacity, grant)
         ELSE mut_capacity_inline_to_heap(S, new_capacity, grant)

\* Shtick::mut_capacity
Shtick_mut_capacity(S, new_capacity, grant) ==
    IF ~is_allocated_asserted(S)
    THEN Sh(S.special_count, S.maybe_allocated, S.heap, "panic")
    ELSE IF Count_le(new_capacity, max_unallocated_count)
    THEN IF is_allocated(S)
         THEN mut_capacity_heap_to_inline(S, new_capacity)
         ELSE mut_capacity_inline_to_inline(S, new_capacity)
    ELSE IF is_allocated(S)
         THEN mut_capacity_heap_to_heap(S, new_capacity, grant)
         ELSE mut_capacity_inline_to_heap(S, new_capacity, grant)

\* char::len_utf8 and char::encode_utf8 of the code point value
len_utf8(value) ==
    IF value < 128 THEN 1 ELSE IF value < 2048 THEN 2 ELSE IF value < 65536 THEN 3 ELSE 4

encode_utf8(value) ==
    IF value < 128 THEN Value(value)
    ELSE IF value < 2048
    THEN MCat(Value(192 + (value \div 64)), Value(128 + (value % 64)))
    ELSE IF value < 65536
    THEN MCat(MCat(Value(224 + (value \div 4096)),
                   Value(128 + ((value \div 64) % 64))),
              Value(128 + (value % 64)))
    ELSE MCat(MCat(MCat(Value(240 + (value \div 262144)),
                        Value(128 + ((value \div 4096) % 64))),
                   Value(128 + ((value \div 64) % 64))),
              Value(128 + (value % 64)))

\* the capacity push asks for when it grows; `capacity + capacity` is Add<Self>
push_new_capacity(S) ==
    IF is_unallocated(S) THEN Count_of(SHORT_NEXT_POWER_OF_2 * 2)
    ELSE Count16_add(Shtick_capacity(S), Shtick_capacity(S))

\* does push grow the capacity for this needed_count?
push_grows(needed_count, capacity) == Count_ge(needed_count, capacity)

\* the end of push: w is the Shtick with the character encoded into its
\* slice, or the panic of the slice index
push_encoded(w, needed_count) ==
    IF w.result # "Ok" THEN w ELSE mut_just_count(w, needed_count)

\* the tail of push: encode the character at [count, needed_count), set the count
push_encode(S, count, needed_count, value) ==
    push_encoded(write_slice(S, into_usize(count), encode_utf8(value)), needed_count)

\* push after its mut_capacity call, which left the Shtick grown
push_grown(grown, count, needed_count, value) ==
    IF grown.result # "Ok"
    THEN grown
    ELSE IF ~Count_ge(Shtick_capacity(grown), needed_count)
    THEN Sh(grown.special_count, grown.maybe_allocated, grown.heap, "panic")
    ELSE push_encode(grown, count, needed_count, value)

\* push once needed_count is known
push_needed(S, count, needed_count, value, grant, overflow_checks) ==
    IF ~push_grows(needed_count, Shtick_capacity(S))
    THEN push_encode(S, count, needed_count, value)
    ELSE IF is_allocated(S) /\ overflow_checks
            /\ Count16_add_overflows(Shtick_capacity(S), Shtick_capacity(S))
    THEN Sh(S.special_count, S.maybe_allocated, S.heap, "panic")
    ELSE push_grown(Shtick_mut_capacity(S, push_new_capacity(S), grant),
                    count, needed_count, value)

\* push that refuses to reach the count Count16::MAX
Shtick_push_refuses_max(S, value, grant, overflow_checks) ==
    IF from_usize_refuses_max(as_usize(Shtick_count(S)) + len_utf8(value),
                              Count16Width).result # "Ok"
    THEN Sh(S.special_count, S.maybe_allocated, S.heap, "TooLarge")
    ELSE IF ~is_allocated_asserted(S)
    THEN Sh(S.special_count, S.maybe_allocated, S.heap, "panic")
    ELSE push_needed(S, Shtick_count(S),
             from_usize(as_usize(Shtick_count(S)) + len_utf8(value), Count16Width).count,
             value, grant, overflow_checks)

\* Shtick::push.  overflow_checks tells whether the build panics on an
\* arithmetic overflow or wraps.
Shtick_push(S, value, grant, overflow_checks) ==
    IF from_usize(as_usize(Shtick_count(S)) + len_utf8(value), Count16Width).result # "Ok"
    THEN Sh(S.special_count, S.maybe_allocated, S.heap, "TooLarge")
    ELSE IF ~is_allocated_asserted(S)
    THEN Sh(S.special_count, S.maybe_allocated, S.heap, "panic")
    ELSE push_needed(S, Shtick_count(S),
             from_usize(as_usize(Shtick_count(S)) + len_utf8(value), Count16Width).count,
             value, grant, overflow_checks)

\* the end of try_from: the count is set, the bytes are copied into the slice
try_from_counted(counted, len) ==
    IF counted.result # "Ok" THEN counted
    ELSE write_slice(counted, 0, InputBytes(len))

\* try_from that copies the bytes but never sets the count
try_from_sized_without_count(sized, count, len) ==
    IF sized.result # "Ok" THEN sized
    ELSE write_slice(sized, 0, InputBytes(len))

\* try_from after `shtick.mut_capacity(count)?`, which left the Shtick sized
try_from_sized(sized, count, len) ==
    IF sized.result # "Ok" THEN sized
    ELSE try_from_counted(mut_just_count(sized, count), len)

\* try_from that sizes the Shtick one byte above the input's length
Shtick_try_from_roomy(len, heap, grant) ==
    IF from_usize(len, Count16Width).result # "Ok"
    THEN Sh(Shtick_new(heap).special_count, Shtick_new(heap).maybe_allocated, heap,
            "TooLarge")
    ELSE try_from_sized(Shtick_mut_capacity(Shtick_new(heap),
                                            from_usize(len, Count16Width).count - 1,
                                            grant),
                        from_usize(len, Count16Width).count, len)

\* TryFrom<&[u8]> for Shtick, for the byte string InputBytes(len).  On an
\* error the function's local Shtick is dropped.
Shtick_try_from(len, heap, grant) ==
    IF from_usize(len, Count16Width).result # "Ok"
    THEN Sh(Shtick_new(heap).special_count, Shtick_new(heap).maybe_allocated, heap,
            "TooLarge")
    ELSE try_from_sized(Shtick_mut_capacity(Shtick_new(heap),
                                            from_usize(len, Count16Width).count, grant),
                        from_usize(len, Count16Width).count, len)

\* Display for Shtick: the live bytes, written out as they are
\* (from_utf8_unchecked does not look at them)
Shtick_display(S) == Shtick_deref(S)

\* Drop that resets the Shtick and leaves its allocation alone
Shtick_drop_keeps_allocation(S) ==
    IF ~is_allocated_asserted(S)
    THEN Sh(S.special_count, S.maybe_allocated, S.heap, "panic")
    ELSE Sh(mut_count_unchecked_unallocated(Count_of(0)),
            IF is_allocated(S) THEN InlineView(Uninit(UNALLOCATED16))
            ELSE S.maybe_allocated,
            S.heap, "Ok")

\* Drop for Shtick
Shtick_drop(S) ==
    IF ~is_allocated_asserted(S)
    THEN Sh(S.special_count, S.maybe_allocated, S.heap, "panic")
    ELSE IF is_allocated(S)
    THEN Sh(mut_count_unchecked_unallocated(Count_of(0)),
            InlineView(Uninit(UNALLOCATED16)),
            Allocation16_mut_capacity(S.maybe_allocated.allocation, Count_of(0),
                                      S.heap, TRUE).heap,
            "Ok")
    ELSE Sh(mut_count_unchecked_unallocated(Count_of(0)),
            S.maybe_allocated, S.heap, "Ok")

(***************************************************************************)
(* The layout of a Shtick in memory, on a target with 64-bit pointers.  A  *)
(* type is [size, align] in bytes; a struct or union is laid out from the  *)
(* layouts of its fields by the rule its repr attribute names.             *)
(***************************************************************************)
Layout(size, align) == [size |-> size, align |-> align]
RoundUp(n, align) == ((n + align - 1) \div align) * align
Larger(a, b) == IF a >= b THEN a ELSE b

layout_u8 == Layout(1, 1)
layout_i16 == Layout(2, 2)
\* NonNull<T>, a thin pointer
layout_NonNull == Layout(8, 8)
\* [T; n]
layout_array(element, n) == Layout(element.size * n, element.align)

\* the greatest alignment among the fields
RECURSIVE fields_align(_)
fields_align(fields) ==
    IF fields = << >> THEN 1
    ELSE Larger(Head(fields).align, fields_align(Tail(fields)))

\* the greatest size among the fields
RECURSIVE fields_size(_)
fields_size(fields) ==
    IF fields = << >> THEN 0
    ELSE Larger(Head(fields).size, fields_size(Tail(fields)))

\* the offset at which a repr(C) struct places its k-th field, the fields
\* aligned to at most `pack` bytes (k = Len(fields) + 1: the end of the last)
RECURSIVE repr_C_offset(_, _, _)
repr_C_offset(fields, k, pack) ==
    IF k = 1 THEN 0
    ELSE IF k = Len(fields) + 1
    THEN repr_C_offset(fields, k - 1, pack) + fields[k - 1].size
    ELSE RoundUp(repr_C_offset(fields, k - 1, pack) + fields[k - 1].size,
                 IF fields[k].align <= pack THEN fields[k].align ELSE pack)

\* #[repr(C, packed)] struct
repr_C_packed_struct(fields) ==
    Layout(repr_C_offset(fields, Len(fields) + 1, 1), 1)
\* #[repr(C, packed)] union: every field at offset 0
repr_C_packed_union(fields) == Layout(fields_size(fields), 1)
\* #[repr(C, align(n))] struct
repr_C_align_struct(fields, n) ==
    Layout(RoundUp(repr_C_offset(fields, Len(fields) + 1, Larger(n, fields_align(fields))),
                   Larger(n, fields_align(fields))),
           Larger(n, fields_align(fields)))
\* #[repr(C)] struct, no align attribute
repr_C_struct(fields) == repr_C_align_struct(fields, 1)

\* AllocationN<u8, i16>: { ptr: NonNull<u8>, capacity: CountN<i16> }
Allocation16_fields == << layout_NonNull, layout_i16 >>
Allocation16_layout == repr_C_packed_struct(Allocation16_fields)
\* the offset of AllocationN.ptr
Allocation16_ptr_offset == repr_C_offset(Allocation16_fields, 1, 1)
\* union MaybeAllocated { unallocated_buffer, allocation }
MaybeAllocated_fields == << layout_array(layout_u8, UNALLOCATED16), Allocation16_layout >>
MaybeAllocated_layout == repr_C_packed_union(MaybeAllocated_fields)
\* struct Shtick { maybe_allocated, special_count }
Shtick_fields == << MaybeAllocated_layout, layout_i16 >>
\* a Shtick without its align(8)
Shtick_layout_repr_C == repr_C_struct(Shtick_fields)
Shtick_layout == repr_C_align_struct(Shtick_fields, 8)
\* the offset of Shtick.maybe_allocated.allocation
Shtick_allocation_offset == repr_C_offset(Shtick_fields, 1, Shtick_layout.align) + 0
\* the offset of Shtick.special_count
Shtick_special_count_offset == repr_C_offset(Shtick_fields, 2, Shtick_layout.align)
\* Aligned<Allocation16<u8>>
Aligned_layout == repr_C_align_struct(<< Allocation16_layout >>, 8)

\* assert_eq!((ptr as usize) % 8, 0) of Shtick::allocation and
\* Shtick::allocation_mut, then the same assertion of AllocationN::as_ptr
\* on the reference they return
Shtick_allocation_asserted(address) ==
    IF (address + Shtick_allocation_offset) % 8 # 0 THEN "panic"
    ELSE IF (address + Shtick_allocation_offset + Allocation16_ptr_offset) % 8 # 0
    THEN "panic"
    ELSE "Ok"

\* AllocationN::as_ptr on the allocation inside an Aligned local
Aligned_as_ptr_asserted(address) ==
    IF (address + Allocation16_ptr_offset) % 8 # 0 THEN "panic" ELSE "Ok"

(***************************************************************************)
(* The state.                                                              *)
(***************************************************************************)
VARIABLES
    \* Array<u32>: the fields of the struct
    array_count, array_capacity, array_allocation,
    \* the last call on the Array, [name, arg], its result and what it returned
    array_op, array_result, array_ret,
    \* the values pushed and not yet popped, oldest first
    pushed,
    \* Shtick: the fields of the struct, and the allocator's heap
    special_count, maybe_allocated, heap,
    \* "live", "dropped" (Drop has run) or "panicked" (a call panicked)
    shtick_phase,
    \* the last call on the Shtick, [name, arg], and its result
    shtick_op, shtick_result,
    \* the number of push calls so far
    pushes,
    \* Allocation8<u32>: the memory behind ptr (<< >> when dangling) and the
    \* capacity field
    allocation_ptr, allocation_capacity,
    \* the last call on the Allocation, [name, arg], its result, the call it
    \* made to the system allocator and the value a read returned
    allocation_op, allocation_result, allocation_call, allocation_ret,
    \* the Count the caller holds: the bit width of its T, its stored field
    \* and the number of operator and double_or_max calls that made it
    count_width, count_self, count_ops,
    \* the last call on the Count or on an Index, [name, arg], its result and
    \* the value it returned
    index_op, index_result, index_ret,
    \* the address of the Shtick and of the Aligned local holding its
    \* allocation (NoAddress before they exist), the last placement or
    \* access, [name, arg], and its result
    shtick_address, aligned_address, layout_op, layout_result

array_vars == << array_count, array_capacity, array_allocation,
                 array_op, array_result, array_ret, pushed >>
shtick_vars == << special_count, maybe_allocated, heap, shtick_phase,
                  shtick_op, shtick_result, pushes >>
allocation_vars == << allocation_ptr, allocation_capacity, allocation_op,
                      allocation_result, allocation_call, allocation_ret >>
index_vars == << count_width, count_self, count_ops, index_op, index_result, index_ret >>
layout_vars == << shtick_address, aligned_address, layout_op, layout_result >>
vars == << array_vars, shtick_vars, allocation_vars, index_vars, layout_vars >>

\* the Array of the current state
array_self == Arr(array_count, array_capacity, array_allocation, "Ok", << >>)
\* the Shtick of the current state
shtick_self == Sh(special_count, maybe_allocated, heap, "Ok")

Call(name, arg) == [name |-> name, arg |-> arg]

RECURSIVE Cells(_)
\* the cells of a memory, one by one
Cells(m) ==
    IF m = << >> THEN << >>
    ELSE << [k |-> m[1].k, at |-> m[1].at] >>
         \o Cells(IF m[1].n = 1 THEN Tail(m) ELSE MDrop(m, 1))

ArrayInit ==
    /\ array_count = Array_new.count
    /\ array_capacity = Array_new.capacity
    /\ array_allocation = Array_new.allocation
    /\ array_op = Call("new", 0)
    /\ array_result = "Ok"
    /\ array_ret = << >>
    /\ pushed = << >>

ShtickInit ==
    /\ heap = [p \in Pointers |-> Block("unused", << >>)]
    /\ special_count = Shtick_new(heap).special_count
    /\ maybe_allocated = Shtick_new(heap).maybe_allocated
    /\ shtick_phase = "live"
    /\ shtick_op = Call("new", 0)
    /\ shtick_result = "Ok"
    /\ pushes = 0

AllocationInit ==
    /\ allocation_ptr = Allocation_new.ptr
    /\ allocation_capacity = Allocation_new.capacity
    /\ allocation_op = Call("new", 0)
    /\ allocation_result = "Ok"
    /\ allocation_call = "none"
    /\ allocation_ret = << >>

IndexInit ==
    /\ count_width = CountWidth
    /\ count_self = CountN_default.count
    /\ count_ops = 0
    /\ index_op = Call("default", 0)
    /\ index_result = "Ok"
    /\ index_ret = << >>

\* no address: one past the memory
NoAddress == MaxAddress + 1

LayoutInit ==
    /\ shtick_address = NoAddress
    /\ aligned_address = NoAddress
    /\ layout_op = Call("none", 0)
    /\ layout_result = "Ok"

Init == ArrayInit /\ ShtickInit /\ AllocationInit /\ IndexInit /\ LayoutInit

(***************************************************************************)
(* The calls on the Array.                                                 *)
(***************************************************************************)
\* the Array fields and the outcome of a call
ArrayBecomes(r, name, arg) ==
    /\ array_count' = r.count
    /\ array_capacity' = r.capacity
    /\ array_allocation' = r.allocation
    /\ array_op' = Call(name, arg)
    /\ array_result' = r.result
    /\ array_ret' = r.ret

\* the values of the live elements, read off the Array after a call that is
\* not a push or a pop
LiveValues(r) == [i \in 1..into_usize(r.count) |-> Cells(Array_deref(r))[i].at]

\* the Array can be called: no call has panicked and Drop has not run
ArrayLive == array_result \notin {"panic"} \cup Misused /\ array_op.name # "drop"

\* a push and its record of the values pushed
ArrayPushes(r, value) ==
    /\ ArrayBecomes(r, "push", value)
    /\ pushed' = IF r.result = "Ok" THEN Append(pushed, value) ELSE pushed

\* a call that drops or adds elements other than by one push or pop
ArrayResizes(r, name, arg) ==
    /\ ArrayBecomes(r, name, arg)
    /\ pushed' = LiveValues(r)

\* array.push(value)
ArrayPush ==
    /\ ArrayLive
    /\ \E value \in Elements, grant \in BOOLEAN :
         ArrayPushes(array_push(value, array_self, grant), value)
    /\ UNCHANGED << shtick_vars, allocation_vars, index_vars, layout_vars >>

\* array.pop(Pop::Last)
ArrayPop ==
    /\ ArrayLive
    /\ ArrayBecomes(array_pop_last(array_self), "pop", 0)
    /\ pushed' = IF pushed = << >> THEN pushed ELSE SubSeq(pushed, 1, Len(pushed) - 1)
    /\ UNCHANGED << shtick_vars, allocation_vars, index_vars, layout_vars >>

\* array.clear(options)
ArrayClear ==
    /\ ArrayLive
    /\ \E options \in {"KeepCapacity", "DropCapacity"}, grant \in BOOLEAN :
         ArrayResizes(array_clear(options, array_self, grant), "clear", options)
    /\ UNCHANGED << shtick_vars, allocation_vars, index_vars, layout_vars >>

\* array.mut_capacity(Count::of(c))
ArrayMutCapacity ==
    /\ ArrayLive
    /\ \E c \in 0..(MaxCapacity + 1), grant \in BOOLEAN :
         ArrayResizes(array_mut_capacity(Count_of(c), array_self, grant), "mut_capacity", c)
    /\ UNCHANGED << shtick_vars, allocation_vars, index_vars, layout_vars >>

\* array.mut_count(Count::of(n))
ArrayMutCount ==
    /\ ArrayLive
    /\ \E n \in 0..(MaxCapacity + 1), grant \in BOOLEAN :
         ArrayResizes(array_mut_count(Count_of(n), array_self, grant), "mut_count", n)
    /\ UNCHANGED << shtick_vars, allocation_vars, index_vars, layout_vars >>

\* the Array goes out of scope: Drop is clear(Clear::DropCapacity)
ArrayDrop ==
    /\ array_op.name # "drop"
    /\ ArrayResizes(array_clear("DropCapacity", array_self, TRUE), "drop", 0)
    /\ UNCHANGED << shtick_vars, allocation_vars, index_vars, layout_vars >>

ArrayNext ==
    ArrayPush \/ ArrayPop \/ ArrayClear \/ ArrayMutCapacity \/ ArrayMutCount \/ ArrayDrop

SpecArray == Init /\ [][ArrayNext]_vars

(***************************************************************************)
(* The calls on the Shtick.                                                *)
(***************************************************************************)
\* lengths of the byte strings handed to TryFrom<&[u8]>
InputLens == {0, 13, 14, 15, 16385, 32767, 32768, 32769}
\* arguments of mut_capacity
CapacityArgs == {0, 3, 14, 15, 28, 32768}
\* the characters pushed: '?', U+00DF, U+6771 and U+13107, of 1 to 4 bytes
Chars == {63, 223, 26481, 78087}

\* the Shtick fields, the heap and the outcome of a call; after_err tells
\* what has become of the Shtick when the call returned an Err
ShtickBecomes(r, name, arg, after_err) ==
    /\ special_count' = r.special_count
    /\ maybe_allocated' = r.maybe_allocated
    /\ heap' = r.heap
    /\ shtick_op' = Call(name, arg)
    /\ shtick_result' = r.result
    /\ shtick_phase' = IF name = "drop" THEN "dropped"
                       ELSE IF r.result = "Ok" THEN "live"
                       ELSE IF r.result = "panic" THEN "panicked"
                       ELSE after_err

\* Shtick::try_from(bytes) with bytes.len() = len; an Err leaves no Shtick
ShtickTryFrom ==
    /\ shtick_phase = "live"
    /\ shtick_op.name = "new"
    /\ \E len \in InputLens, grant \in BOOLEAN :
         ShtickBecomes(Shtick_try_from(len, heap, grant), "try_from", len, "dropped")
    /\ UNCHANGED pushes
    /\ UNCHANGED << array_vars, allocation_vars, index_vars, layout_vars >>

\* shtick.push(value)
ShtickPush ==
    /\ shtick_phase = "live"
    /\ pushes < MaxPushes
    /\ \E value \in Chars, grant \in BOOLEAN, overflow_checks \in BOOLEAN :
         ShtickBecomes(Shtick_push(shtick_self, value, grant, overflow_checks),
                       "push", value, "live")
    /\ pushes' = pushes + 1
    /\ UNCHANGED << array_vars, allocation_vars, index_vars, layout_vars >>

\* shtick.mut_capacity(Count16::of(c))
ShtickMutCapacity ==
    /\ shtick_phase = "live"
    /\ \E c \in CapacityArgs, grant \in BOOLEAN :
         ShtickBecomes(Shtick_mut_capacity(shtick_self, Count_of(c), grant),
                       "mut_capacity", c, "live")
    /\ UNCHANGED pushes
    /\ UNCHANGED << array_vars, allocation_vars, index_vars, layout_vars >>

\* the Shtick goes out of scope, also when a panic unwinds
ShtickDrop ==
    /\ shtick_phase \in {"live", "panicked"}
    /\ ShtickBecomes(Shtick_drop(shtick_self), "drop", 0, "dropped")
    /\ UNCHANGED pushes
    /\ UNCHANGED << array_vars, allocation_vars, index_vars, layout_vars >>

ShtickNext == ShtickTryFrom \/ ShtickPush \/ ShtickMutCapacity \/ ShtickDrop

SpecShtick == Init /\ [][ShtickNext]_vars

(***************************************************************************)
(* Properties of the Array.                                                *)
(***************************************************************************)
(***************************************************************************)
(* The calls on an Allocation8<u32>, the AllocationN whose count type is   *)
(* small enough for its capacity to reach CountN::MAX = 128.               *)
(***************************************************************************)
\* bit width of the count type of Allocation8 = AllocationN<T, i8>
AllocationWidth == 8
\* arguments of mut_capacity
AllocationCapacityArgs == {0, 1, 3, 64, 100, 128}
\* offsets handed to write_uninitialized and read_destructively
AllocationOffsets == {-1, 0, 1, 2, 127, 128}

\* the Allocation's fields and the outcome of a mut_capacity or grow call
AllocationBecomes(r, name, arg) ==
    /\ allocation_ptr' = r.ptr
    /\ allocation_capacity' = r.capacity
    /\ allocation_op' = Call(name, arg)
    /\ allocation_result' = r.result
    /\ allocation_call' = r.call
    /\ allocation_ret' = << >>

\* the outcome of a write_uninitialized or read_destructively call
AllocationAccessed(ptr, result, ret, name, arg) ==
    /\ allocation_ptr' = ptr
    /\ allocation_op' = Call(name, arg)
    /\ allocation_result' = result
    /\ allocation_call' = "none"
    /\ allocation_ret' = ret
    /\ UNCHANGED allocation_capacity

\* allocation.mut_capacity(Count8::of(c))
AllocationMutCapacity ==
    /\ \E c \in AllocationCapacityArgs, grant \in BOOLEAN :
         AllocationBecomes(allocation_mut_capacity(Count_of(c), allocation_ptr,
                                                   allocation_capacity, grant),
                           "mut_capacity", c)
    /\ UNCHANGED << array_vars, shtick_vars, index_vars, layout_vars >>

\* allocation.grow()
AllocationGrow ==
    /\ \E grant \in BOOLEAN :
         AllocationBecomes(allocation_grow(allocation_ptr, allocation_capacity, grant,
                                           AllocationWidth),
                           "grow", 0)
    /\ UNCHANGED << array_vars, shtick_vars, index_vars, layout_vars >>

\* the outcome of a write, w being what allocation_write_uninitialized returned
AllocationWritten(w, offset, value) ==
    AllocationAccessed(w.ptr, w.result, << >>, "write_uninitialized",
                       << offset, value >>)

\* allocation.write_uninitialized(offset, value)
AllocationWrite ==
    /\ \E offset \in AllocationOffsets, value \in Elements :
         AllocationWritten(allocation_write_uninitialized(offset, value, allocation_ptr,
                                                          allocation_capacity),
                           offset, value)
    /\ UNCHANGED << array_vars, shtick_vars, index_vars, layout_vars >>

\* the outcome of a read, r being what allocation_read_destructively returned
AllocationWasRead(r, offset) ==
    AllocationAccessed(r.ptr, r.result, r.value, "read_destructively", offset)

\* allocation.read_destructively(offset)
AllocationRead ==
    /\ \E offset \in AllocationOffsets :
         AllocationWasRead(allocation_read_destructively(offset, allocation_ptr,
                                                         allocation_capacity),
                           offset)
    /\ UNCHANGED << array_vars, shtick_vars, index_vars, layout_vars >>

AllocationNext ==
    AllocationMutCapacity \/ AllocationGrow \/ AllocationWrite \/ AllocationRead

SpecAllocation == Init /\ [][AllocationNext]_vars

\* C1: in every state reachable from Array::new() by push, pop, clear,
\* mut_capacity and mut_count calls, also those that return an error, the
\* count is at most the capacity and the live elements occupy exactly the
\* offsets 0..count-1: every slot below count holds a value and every slot
\* from count up to the capacity holds none.
ArrayCountWithinCapacity ==
    /\ Count_le(array_count, array_capacity)
    /\ MLen(array_allocation) = into_usize(array_capacity)
    /\ NoUninit(Array_deref(array_self))
    /\ MDrop(array_allocation, into_usize(array_count))
         = Uninit(into_usize(array_capacity) - into_usize(array_count))

\* C1 witness: a push on a full Array that the allocator refused
ArrayFullPushRefused ==
    /\ array_op.name = "push"
    /\ array_result = "Allocation(OutOfMemory)"
    /\ array_count = array_capacity
    /\ Count_gt(array_count, Count_of(0))

\* C2: the Array is last-in-first-out: a pop(Last) on a non-empty Array
\* returns the value pushed last among those not yet popped, decrements the
\* count by exactly 1 and leaves the capacity unchanged; a pop(Last) on an
\* Array of count 0 returns nothing and changes neither count nor capacity.
ArrayPopIsLastInFirstOut ==
    [][array_op'.name = "pop" =>
        IF array_count = Count_of(0)
        THEN /\ array_ret' = << >>
             /\ array_count' = array_count
             /\ array_capacity' = array_capacity
        ELSE /\ array_ret' = Value(pushed[Len(pushed)])
             /\ into_usize(array_count') = into_usize(array_count) - 1
             /\ array_capacity' = array_capacity]_vars

\* C2 witness: after pushing 1 then 2, the first pop has returned 2 and 1 is
\* still in the Array
ArrayPoppedSecondOfTwo ==
    /\ array_op.name = "pop"
    /\ array_ret = Value(2)
    /\ pushed = << 1 >>

(***************************************************************************)
(* The calls on a Count and on an Index.  count_self is the stored field   *)
(* of the Count the caller holds, of the type CountN<T> with T of          *)
(* count_width bits; it starts as Count::default().                        *)
(***************************************************************************)
\* the widths of T: i8, i16, i32, i64
CountWidths == {8, 16, 32, 64}
\* the values of T handed to the operators as their primitive operand
OperandValues(w) ==
    {WNeg(WPow2(w - 1)), WInt(-1), WInt(1), WSub(WPow2(w - 1), WInt(1))}
\* the values of T handed to of
TValues(w) ==
    {WNeg(WPow2(w - 1)), WInt(-1), WInt(0), WInt(1), WInt(2), WInt(123),
     WSub(WPow2(w - 2), WInt(1)), WPow2(w - 2), WAdd(WPow2(w - 2), WInt(1)),
     WSub(WPow2(w - 1), WInt(1))}
\* the usize values handed to from_usize
UsizeValues(w) ==
    {WInt(0), WInt(1), WSub(WPow2(w - 1), WInt(1)), WPow2(w - 1),
     WAdd(WPow2(w - 1), WInt(1)), WSub(WPow2(64), WInt(1))}
\* the stored fields of the Counts handed to the operators as other Count
SelfValues(w) == {WInt(-1), WNeg(WPow2(w - 2)), CountN_MAX(w)}
\* the i8 values handed to double_or_max
MinValues == {WInt(1), WInt(2), WInt(5), WInt(127)}
\* the i64 offsets and index values tried on a Count: the ends of i64 and
\* the values around 0, around the count and around its negation
OffsetValues(self) ==
    {x \in {WNeg(WPow2(63)), WSub(self, WInt(1)), self, WAdd(self, WInt(1)),
            WInt(-1), WInt(0), WSub(WNeg(self), WInt(1)), WNeg(self),
            WSub(WPow2(63), WInt(1))} : WFits(x, 64)}
\* the Counts handed to Index::Ordinal: the sequence's own count, Count::MAX
\* and the results of Count::of(a) - b
OrdinalCounts(self) ==
    {self, CountN_MAX(64)}
      \cup {CountN_operator("Sub<T>", CountN_of(a).count, b, 64, FALSE).count :
               a \in {WInt(0), WInt(1), WSub(WPow2(63), WInt(1))},
               b \in {WInt(0), WInt(1), WSub(WPow2(63), WInt(1))}}

\* no call has been made yet: the caller makes its Count first
CountFresh == index_op.name = "default"
\* the Count can be operated on: no call has panicked, and none has read it
\* (a read leaves the Count as it is, so the reads are taken last)
CountUnread ==
    /\ index_result # "panic"
    /\ index_op.name \notin {"max_offset", "contains", "check_offset"}

\* a call that makes a new Count
CountMade(r, w, name, arg) ==
    /\ count_width' = IF r.result = "Ok" THEN w ELSE count_width
    /\ count_self' = IF r.result = "Ok" THEN r.count ELSE count_self
    /\ count_ops' = IF r.result = "Ok" THEN 0 ELSE count_ops
    /\ index_op' = Call(name, arg)
    /\ index_result' = r.result
    /\ index_ret' = << >>

\* a call that gives the Count its next value
CountOperated(r, name, arg) ==
    /\ count_width' = count_width
    /\ count_self' = IF r.result = "Ok" THEN r.count ELSE count_self
    /\ count_ops' = count_ops + 1
    /\ index_op' = Call(name, arg)
    /\ index_result' = r.result
    /\ index_ret' = << >>

\* a call that reads the Count
CountQueried(result, ret, name, arg) ==
    /\ UNCHANGED << count_width, count_self, count_ops >>
    /\ index_op' = Call(name, arg)
    /\ index_result' = result
    /\ index_ret' = ret

\* CountN::<T>::of(value)
CountOf ==
    /\ CountFresh
    /\ \E w \in CountWidths : \E value \in TValues(w) :
         CountMade(CountN_of(value), w, "of", [w |-> w, value |-> value])
    /\ UNCHANGED << array_vars, shtick_vars, allocation_vars, layout_vars >>

\* CountN::<T>::MAX
CountMax ==
    /\ CountFresh
    /\ \E w \in CountWidths :
         CountMade(Counted("Ok", CountN_MAX(w)), w, "MAX", [w |-> w])
    /\ UNCHANGED << array_vars, shtick_vars, allocation_vars, layout_vars >>

\* CountN::<T>::from_usize(value)
CountFromUsize ==
    /\ CountFresh
    /\ \E w \in CountWidths, overflow_checks \in BOOLEAN : \E value \in UsizeValues(w) :
         CountMade(CountN_from_usize(value, w, overflow_checks), w, "from_usize",
                   [w |-> w, value |-> value, overflow_checks |-> overflow_checks])
    /\ UNCHANGED << array_vars, shtick_vars, allocation_vars, layout_vars >>

\* count.double_or_max(min_value)
CountDoubleOrMax ==
    /\ CountUnread
    /\ count_ops < MaxCountOps
    /\ \E min_value \in MinValues, overflow_checks \in BOOLEAN :
         CountOperated(CountN_double_or_max(count_self, min_value, count_width,
                                            overflow_checks),
                       "double_or_max",
                       [self |-> count_self, min_value |-> min_value,
                        overflow_checks |-> overflow_checks])
    /\ UNCHANGED << array_vars, shtick_vars, allocation_vars, layout_vars >>

\* count + other, count - other, count += other, count -= other
CountOperator ==
    /\ CountUnread
    /\ count_ops < MaxCountOps
    /\ \E operator \in CountOperators, overflow_checks \in BOOLEAN :
       \E other \in IF operator \in {"Add<T>", "AddAssign<T>", "Sub<T>", "SubAssign<T>"}
                    THEN OperandValues(count_width) ELSE SelfValues(count_width) :
         CountOperated(CountN_operator(operator, count_self, other, count_width,
                                       overflow_checks),
                       operator,
                       [self |-> count_self, other |-> other,
                        overflow_checks |-> overflow_checks])
    /\ UNCHANGED << array_vars, shtick_vars, allocation_vars, layout_vars >>

\* the outcome r of max_offset
CountMaxOffsetGave(r, overflow_checks) ==
    CountQueried(r.result, r.offset, "max_offset", [overflow_checks |-> overflow_checks])

\* count.max_offset()
CountMaxOffset ==
    /\ CountUnread
    /\ \E overflow_checks \in BOOLEAN :
         CountMaxOffsetGave(CountN_max_offset(count_self, overflow_checks), overflow_checks)
    /\ UNCHANGED << array_vars, shtick_vars, allocation_vars, layout_vars >>

\* the outcome r of contains
CountContainsGave(r, offset, overflow_checks) ==
    CountQueried(r.result, r.value, "contains",
                 [offset |-> offset, overflow_checks |-> overflow_checks])

\* count.contains(offset)
CountContains ==
    /\ CountUnread
    /\ \E offset \in OffsetValues(count_self), overflow_checks \in BOOLEAN :
         CountContainsGave(CountN_contains(count_self, offset, overflow_checks),
                           offset, overflow_checks)
    /\ UNCHANGED << array_vars, shtick_vars, allocation_vars, layout_vars >>

\* the outcome r of check_offset
IndexCheckOffsetGave(r, kind, value, overflow_checks) ==
    CountQueried(r.result, [offset |-> r.offset, increases_count |-> r.increases_count],
                 "check_offset",
                 [kind |-> kind, value |-> value, overflow_checks |-> overflow_checks])

\* Index::<kind>(value).check_offset(count), the count being a Count
IndexCheckOffset ==
    /\ CountUnread
    /\ count_width = 64
    /\ \E kind \in {"Of", "InBounds", "Wrap", "Ordinal"}, overflow_checks \in BOOLEAN :
       \E value \in IF kind = "Ordinal" THEN OrdinalCounts(count_self)
                    ELSE OffsetValues(count_self) :
         IndexCheckOffsetGave(Index_check_offset(kind, value, count_self, overflow_checks),
                              kind, value, overflow_checks)
    /\ UNCHANGED << array_vars, shtick_vars, allocation_vars, layout_vars >>

IndexNext ==
    \/ CountOf \/ CountMax \/ CountFromUsize \/ CountDoubleOrMax \/ CountOperator
    \/ CountMaxOffset \/ CountContains \/ IndexCheckOffset

SpecIndex == Init /\ [][IndexNext]_vars

(***************************************************************************)
(* Where Shticks and the Aligned locals of mut_capacity and drop are put,  *)
(* and the alignment assertions made on them.                              *)
(***************************************************************************)
\* the addresses the compiler or the allocator may give a value of a layout
Places(layout) ==
    { a \in 0..MaxAddress : a % layout.align = 0 /\ a + layout.size <= MaxAddress + 1 }

\* Shtick::new(), or a move of the Shtick: it lives at `address`
ShtickPlaced(address) ==
    /\ shtick_address' = address
    /\ layout_op' = Call("Shtick", address)
    /\ layout_result' = "Ok"
    /\ UNCHANGED << aligned_address, array_vars, shtick_vars, allocation_vars, index_vars >>

\* allocation() or allocation_mut() of an allocated Shtick
ShtickAllocation ==
    /\ shtick_address # NoAddress
    /\ layout_result # "panic"
    /\ layout_op' = Call("allocation", shtick_address)
    /\ layout_result' = Shtick_allocation_asserted(shtick_address)
    /\ UNCHANGED << shtick_address, aligned_address, array_vars, shtick_vars,
                    allocation_vars, index_vars >>

\* `Aligned(...)` in mut_capacity and in drop: the local holding the
\* allocation lives at `address`
AlignedPlaced(address) ==
    /\ shtick_address # NoAddress
    /\ layout_result # "panic"
    /\ aligned_address' = address
    /\ layout_op' = Call("Aligned", address)
    /\ layout_result' = "Ok"
    /\ UNCHANGED << shtick_address, array_vars, shtick_vars, allocation_vars, index_vars >>

\* a call on the allocation in the Aligned local (mut_capacity, as_slice)
AlignedAllocation ==
    /\ aligned_address # NoAddress
    /\ layout_result # "panic"
    /\ layout_op' = Call("as_ptr", aligned_address)
    /\ layout_result' = Aligned_as_ptr_asserted(aligned_address)
    /\ UNCHANGED << shtick_address, aligned_address, array_vars, shtick_vars,
                    allocation_vars, index_vars >>

LayoutNext ==
    \/ \E address \in Places(Shtick_layout) : ShtickPlaced(address)
    \/ ShtickAllocation
    \/ \E address \in Places(Aligned_layout) : AlignedPlaced(address)
    \/ AlignedAllocation

SpecLayout == Init /\ [][LayoutNext]_vars

(***************************************************************************)
(* Properties of the Shtick.                                               *)
(***************************************************************************)
\* C3: in every reachable state, a heap-backed (allocated) Shtick has a heap
\* allocation whose capacity is strictly greater than the inline threshold 14.
ShtickHeapCapacityAboveThreshold ==
    is_allocated(shtick_self) =>
        /\ maybe_allocated.view = "allocation"
        /\ Count_gt(maybe_allocated.allocation.capacity, max_unallocated_count)

\* C3 witness: mut_capacity(15) has made the Shtick heap-backed with the
\* smallest heap capacity
ShtickHeapOfCapacity15 ==
    /\ shtick_op.name = "mut_capacity"
    /\ shtick_op.arg = 15
    /\ is_allocated(shtick_self)
    /\ Shtick_capacity(shtick_self) = Count_of(15)

\* C4: in every reachable Shtick state the tag special_count is in 1..15
\* (Inline, length tag - 1) or is <= 0 (Heap, length -tag), and
\* count() <= capacity(), so that the assertions of is_allocated and
\* mut_just_count hold.
ShtickTagAndCountValid ==
    /\ special_count \in 1..(UNALLOCATED16 + 1) \/ special_count <= 0
    /\ is_allocated_asserted(shtick_self)
    /\ Count_le(Shtick_count(shtick_self), Shtick_capacity(shtick_self))

\* C5: after a successful mut_capacity(c), whatever the representation before
\* and whether c <= 14 or c > 14: the new count is min(old count, c), the
\* bytes below the new count are the old bytes at the same offsets, the
\* Shtick is Inline iff c <= 14, and capacity() is 14 when Inline and exactly
\* c when Heap.
ShtickMutCapacityEffect ==
    [][(shtick_op'.name = "mut_capacity" /\ shtick_result' = "Ok") =>
        /\ Shtick_count(shtick_self)'
             = Count_min(Shtick_count(shtick_self), Count_of(shtick_op'.arg))
        /\ Shtick_deref(shtick_self)'
             = MTake(Shtick_deref(shtick_self), into_usize(Shtick_count(shtick_self)'))
        /\ is_unallocated(shtick_self)' <=> shtick_op'.arg <= UNALLOCATED16
        /\ Shtick_capacity(shtick_self)'
             = IF is_unallocated(shtick_self)' THEN Count_of(UNALLOCATED16)
               ELSE Count_of(shtick_op'.arg)]_vars

\* C5 witness: mut_capacity(28) has shrunk a heap-backed Shtick of more than
\* 28 bytes: it holds the first 28 bytes of its 32767-byte input
ShtickHeapTruncatedTo28 ==
    /\ shtick_op.name = "mut_capacity"
    /\ shtick_op.arg = 28
    /\ shtick_result = "Ok"
    /\ is_allocated(shtick_self)
    /\ Shtick_deref(shtick_self) = MTake(InputBytes(32767), 28)

\* C6: when mut_capacity(c) with c <= 14 is applied to a heap-backed Shtick,
\* the heap allocation the Shtick owned is released, so that after the call
\* no heap buffer remains allocated on behalf of the Shtick.
ShtickDemotionReleasesHeap ==
    [][(/\ shtick_op'.name = "mut_capacity"
        /\ shtick_result' = "Ok"
        /\ shtick_op'.arg <= UNALLOCATED16
        /\ is_allocated(shtick_self))
       => LivePointers(heap') = {}]_vars

\* C7: push grows the capacity only if the required length (the length plus
\* the character's UTF-8 length) exceeds the capacity; when the required
\* length is at most the capacity, the push changes neither the capacity nor
\* the representation.
ShtickPushKeepsCapacityWhenItFits ==
    [][(/\ shtick_op'.name = "push"
        /\ into_usize(Shtick_count(shtick_self)) + len_utf8(shtick_op'.arg)
             <= into_usize(Shtick_capacity(shtick_self)))
       => /\ Shtick_capacity(shtick_self)' = Shtick_capacity(shtick_self)
          /\ is_allocated(shtick_self)' <=> is_allocated(shtick_self)]_vars

\* C8: when push must grow (the required length exceeds the capacity, the
\* length is representable and the allocator grants the request): an Inline
\* Shtick becomes Heap with capacity exactly 32, a Heap Shtick of capacity k
\* stays Heap with capacity exactly 2k, and in both cases the count increases
\* by exactly the character's UTF-8 length.
ShtickPushGrowth ==
    [][(/\ shtick_op'.name = "push"
        /\ shtick_result' \notin {"TooLarge", "Allocation(OutOfMemory)"}
        /\ into_usize(Shtick_count(shtick_self)) + len_utf8(shtick_op'.arg)
             > into_usize(Shtick_capacity(shtick_self)))
       => /\ is_allocated(shtick_self)'
          /\ into_usize(Shtick_capacity(shtick_self)')
               = IF is_allocated(shtick_self)
                 THEN 2 * into_usize(Shtick_capacity(shtick_self))
                 ELSE 32
          /\ into_usize(Shtick_count(shtick_self)')
               = into_usize(Shtick_count(shtick_self)) + len_utf8(shtick_op'.arg)]_vars

ShtickTryFromRoundTrip ==
    (shtick_op.name = "try_from" /\ shtick_op.arg <= 32768) =>
        /\ shtick_result \in {"Ok", "Allocation(OutOfMemory)"}
        /\ shtick_op.arg <= UNALLOCATED16 => shtick_result = "Ok"
        /\ shtick_result = "Ok" =>
             /\ shtick_phase = "live"
             /\ Shtick_count(shtick_self) = Count_of(shtick_op.arg)
             /\ Shtick_display(shtick_self) = InputBytes(shtick_op.arg)

\* C10 witness: a Shtick made from 32767 bytes renders those bytes
ShtickMadeFrom32767Bytes ==
    /\ shtick_op.name = "try_from"
    /\ shtick_op.arg = 32767
    /\ shtick_result = "Ok"
    /\ Shtick_display(shtick_self) = InputBytes(32767)

\* C11: a Shtick constructed from n bytes is Inline with capacity 14 iff
\* n <= 14 and Heap with capacity exactly n iff n > 14, and its count is n.
ShtickTryFromRepresentation ==
    (shtick_op.name = "try_from" /\ shtick_result = "Ok") =>
        /\ is_unallocated(shtick_self) <=> shtick_op.arg <= UNALLOCATED16
        /\ is_allocated(shtick_self) <=> shtick_op.arg > UNALLOCATED16
        /\ Shtick_capacity(shtick_self)
             = IF shtick_op.arg <= UNALLOCATED16 THEN Count_of(UNALLOCATED16)
               ELSE Count_of(shtick_op.arg)
        /\ Shtick_count(shtick_self) = Count_of(shtick_op.arg)

\* C11 witness: a Shtick made from 15 bytes is Heap with capacity 15
ShtickMadeFrom15BytesIsHeap ==
    /\ shtick_op.name = "try_from"
    /\ shtick_op.arg = 15
    /\ shtick_result = "Ok"
    /\ is_allocated(shtick_self)
    /\ Shtick_capacity(shtick_self) = Count_of(15)

\* C12: destroying a Shtick, in whatever state a sequence of calls (also one
\* that panicked) left it, releases its heap buffer if it is heap-backed and
\* leaves the Shtick empty and Inline (tag 1, length 0); destroying an Inline
\* Shtick makes no call to the allocator.
ShtickDropReleasesAndResets ==
    [][(shtick_op'.name = "drop" /\ shtick_phase # "dropped") =>
        /\ shtick_result' = "Ok"
        /\ special_count' = UNALLOCATED_ZERO_SPECIAL_COUNT
        /\ maybe_allocated'.view = "unallocated_buffer"
        /\ heap' = IF is_allocated(shtick_self)
                   THEN [heap EXCEPT ![maybe_allocated.allocation.ptr] =
                            Block("freed", << >>)]
                   ELSE heap]_vars

\* C12 witness: a heap-backed Shtick has been dropped and its buffer freed
ShtickHeapDropped ==
    /\ shtick_op.name = "drop"
    /\ shtick_result = "Ok"
    /\ \E p \in Pointers : heap[p].state = "freed"

(***************************************************************************)
(* Properties of the Allocation.                                           *)
(***************************************************************************)
\* C13: the capacity is updated only if the capacity change succeeds: when
\* mut_capacity returns OutOfMemory, the Allocation's capacity and buffer are
\* exactly as they were before the call.
AllocationOutOfMemoryChangesNothing ==
    [][(allocation_op'.name = "mut_capacity" /\ allocation_result' = "OutOfMemory") =>
        /\ allocation_capacity' = allocation_capacity
        /\ allocation_ptr' = allocation_ptr]_vars

\* C13 witness: a mut_capacity on an Allocation holding a buffer has been
\* refused by realloc
AllocationReallocRefused ==
    /\ allocation_op.name = "mut_capacity"
    /\ allocation_result = "OutOfMemory"
    /\ allocation_call = "realloc"
    /\ Count_gt(allocation_capacity, Count_of(0))

\* C14: a buffer is held iff the capacity is above 0 (and it has exactly
\* capacity slots); mut_capacity(0) on a nonzero capacity deallocates and
\* returns to the empty state; mut_capacity(0) on the empty state and
\* mut_capacity(current capacity) return Ok and change nothing; any other
\* successful mut_capacity(c) leaves the capacity exactly c.
AllocationHoldsBufferIffCapacity ==
    /\ [](/\ allocation_ptr # << >> <=> Count_gt(allocation_capacity, Count_of(0))
          /\ MLen(allocation_ptr) = into_usize(allocation_capacity))
    /\ [][allocation_op'.name = "mut_capacity" =>
            IF allocation_op'.arg = 0 /\ Count_gt(allocation_capacity, Count_of(0))
            THEN /\ allocation_result' = "Ok"
                 /\ allocation_call' = "dealloc"
                 /\ allocation_ptr' = Allocation_new.ptr
                 /\ allocation_capacity' = Allocation_new.capacity
            ELSE IF Count_of(allocation_op'.arg) = allocation_capacity
            THEN /\ allocation_result' = "Ok"
                 /\ allocation_call' = "none"
                 /\ allocation_ptr' = allocation_ptr
                 /\ allocation_capacity' = allocation_capacity
            ELSE allocation_result' = "Ok"
                    => allocation_capacity' = Count_of(allocation_op'.arg)]_vars

\* C14 witness: mut_capacity(0) has deallocated a buffer
AllocationDeallocated ==
    /\ allocation_op.name = "mut_capacity"
    /\ allocation_op.arg = 0
    /\ allocation_call = "dealloc"
    /\ allocation_ptr = << >>

\* C15: grow either succeeds, and then the capacity is strictly greater than
\* before and is the growth policy's value (2 from empty, otherwise double,
\* saturating at MAX), or fails with OutOfMemory and leaves capacity and
\* buffer unchanged; at capacity MAX it fails without calling the allocator.
AllocationGrowDoublesOrFails ==
    [][allocation_op'.name = "grow" =>
        /\ allocation_result' \in {"Ok", "OutOfMemory"}
        /\ allocation_result' = "Ok" =>
             /\ Count_gt(allocation_capacity', allocation_capacity)
             /\ into_usize(allocation_capacity')
                  = IF 2 * into_usize(allocation_capacity) >= MAX_USIZE(AllocationWidth)
                    THEN MAX_USIZE(AllocationWidth)
                    ELSE IF allocation_capacity = Count_of(0) THEN 2
                    ELSE 2 * into_usize(allocation_capacity)
        /\ allocation_result' = "OutOfMemory" =>
             /\ allocation_capacity' = allocation_capacity
             /\ allocation_ptr' = allocation_ptr
        /\ into_usize(allocation_capacity) = MAX_USIZE(AllocationWidth) =>
             /\ allocation_result' = "OutOfMemory"
             /\ allocation_call' = "none"]_vars

\* C15 witness: grow on an Allocation of capacity MAX = 128 has failed
AllocationGrowAtMaxRefused ==
    /\ allocation_op.name = "grow"
    /\ allocation_result = "OutOfMemory"
    /\ allocation_call = "none"
    /\ into_usize(allocation_capacity) = MAX_USIZE(AllocationWidth)

\* C16: write_uninitialized(offset, value) and read_destructively(offset)
\* return InvalidOffset exactly when the offset is not in 0..capacity-1, and
\* then no slot is read or written; otherwise they access exactly the slot at
\* the offset (the write leaves the value there, the read returns what was
\* there and moves it out), no other slot, and not the capacity.
AllocationAccessIsBoundsChecked ==
    [][allocation_op'.name \in {"write_uninitialized", "read_destructively"} =>
        LET write == allocation_op'.name = "write_uninitialized"
            offset == IF write THEN allocation_op'.arg[1] ELSE allocation_op'.arg
        IN  /\ allocation_capacity' = allocation_capacity
            /\ IF offset \in 0..(into_usize(allocation_capacity) - 1)
               THEN /\ allocation_result' = "Ok"
                    /\ MTake(allocation_ptr', offset) = MTake(allocation_ptr, offset)
                    /\ MDrop(allocation_ptr', offset + 1)
                         = MDrop(allocation_ptr, offset + 1)
                    /\ IF write
                       THEN MAt(allocation_ptr', offset) = Value(allocation_op'.arg[2])
                       ELSE /\ allocation_ret' = MAt(allocation_ptr, offset)
                            /\ MAt(allocation_ptr', offset) = Uninit(1)
               ELSE /\ allocation_result' = "InvalidOffset"
                    /\ allocation_ptr' = allocation_ptr
                    /\ allocation_ret' = << >>]_vars

\* C16 witness: the value 2 has been read out of the last slot of an
\* Allocation of capacity 128
AllocationReadLastSlot ==
    /\ allocation_op = Call("read_destructively", 127)
    /\ allocation_result = "Ok"
    /\ allocation_ret = Value(2)

\* C17: a successful Array push(v) raises the count by exactly 1, leaves v at
\* the offset of the old count and leaves every element below it unchanged;
\* the capacity changes only when the old count equalled the old capacity,
\* and then to the growth-policy value (2 from an empty buffer, the double
\* otherwise).
ArrayPushAppendsAndGrowsWhenFull ==
    [][array_op'.name = "push" /\ array_result' = "Ok" =>
        /\ into_usize(array_count') = into_usize(array_count) + 1
        /\ MAt(array_allocation', into_usize(array_count)) = Value(array_op'.arg)
        /\ MTake(array_allocation', into_usize(array_count))
             = MTake(array_allocation, into_usize(array_count))
        /\ into_usize(array_capacity')
             = IF array_count # array_capacity THEN into_usize(array_capacity)
               ELSE IF into_usize(array_capacity) = 0 THEN 2
               ELSE 2 * into_usize(array_capacity)]_vars

\* C17 witness: the push of a third element onto a full Array of capacity 2
\* has doubled the capacity to 4
ArrayThirdPushDoubled ==
    /\ array_op.name = "push"
    /\ array_result = "Ok"
    /\ into_usize(array_count) = 3
    /\ into_usize(array_capacity) = 4

\* C18: a successful Array mut_capacity(c) leaves the capacity exactly c and
\* the count min(old count, c); the elements below the new count are
\* unchanged, the elements at offsets >= c have been popped (no slot from the
\* new count up holds a value and the count has come down to c); when c
\* equals the current capacity nothing changes.
ArrayMutCapacityTruncates ==
    [][array_op'.name = "mut_capacity" /\ array_result' = "Ok" =>
        LET c == Count_of(array_op'.arg)
        IN  /\ array_capacity' = c
            /\ array_count' = Count_min(array_count, c)
            /\ MTake(array_allocation', into_usize(array_count'))
                 = MTake(array_allocation, into_usize(array_count'))
            /\ MDrop(array_allocation', into_usize(array_count'))
                 = Uninit(into_usize(c) - into_usize(array_count'))
            /\ c = array_capacity =>
                 /\ array_count' = array_count
                 /\ array_allocation' = array_allocation]_vars

\* C18 witness: mut_capacity(1) has left one element, the first of those
\* pushed, in a buffer of capacity 1
ArrayCapacityCutToOne ==
    /\ array_op = Call("mut_capacity", 1)
    /\ array_result = "Ok"
    /\ into_usize(array_capacity) = 1
    /\ array_allocation = Value(2)

\* C19: a successful Array mut_count(n) leaves the count exactly n; the
\* elements below min(old count, n) are unchanged, the new elements at the
\* offsets old count..n-1 hold the default value, and the capacity is
\* unchanged when n <= old capacity and exactly n otherwise.
ArrayMutCountSuppliesDefaults ==
    [][array_op'.name = "mut_count" /\ array_result' = "Ok" =>
        LET n == array_op'.arg
            old == into_usize(array_count)
            kept == IF old <= n THEN old ELSE n
        IN  /\ into_usize(array_count') = n
            /\ MTake(array_allocation', kept) = MTake(array_allocation, kept)
            /\ n > old =>
                 MTake(MDrop(array_allocation', old), n - old)
                   = MFill("v", DefaultElement, n - old)
            /\ into_usize(array_capacity')
                 = IF n <= into_usize(array_capacity)
                   THEN into_usize(array_capacity) ELSE n]_vars

\* C19 witness: mut_count(3) has put two default elements after the one
\* element 1 and set the capacity to exactly 3
ArrayCountRaisedToThree ==
    /\ array_op = Call("mut_count", 3)
    /\ array_result = "Ok"
    /\ pushed = << 1, 0, 0 >>
    /\ into_usize(array_capacity) = 3

\* C20: clear(KeepCapacity) leaves the count 0 and the capacity unchanged,
\* with no slot of the buffer holding a value; clear(DropCapacity) and the
\* destruction of the Array leave the count 0, the capacity 0 and no buffer;
\* none of them fails its final assertion, on an empty Array included.
ArrayClearEmptiesAndDropReleases ==
    [][array_op'.name \in {"clear", "drop"} =>
        /\ array_result' = "Ok"
        /\ array_count' = Count_of(0)
        /\ IF array_op' = Call("clear", "KeepCapacity")
           THEN /\ array_capacity' = array_capacity
                /\ array_allocation' = Uninit(into_usize(array_capacity))
           ELSE /\ array_capacity' = Count_of(0)
                /\ array_allocation' = << >>]_vars

\* C20 witness: clear(KeepCapacity) has emptied an Array and kept its buffer
\* of capacity 4
ArrayClearedKeepsFour ==
    /\ array_op = Call("clear", "KeepCapacity")
    /\ array_result = "Ok"
    /\ array_count = Count_of(0)
    /\ into_usize(array_capacity) = 4

(***************************************************************************)
(* Properties of Count and Index.                                          *)
(***************************************************************************)
\* the stored field holds a count of the width: T::MIN <= self.0 <= 0
CountValid(self, w) == WLe(CountN_MAX(w), self) /\ WLe(self, WInt(0))
\* the count a stored field stands for
Magnitude(self) == WNeg(self)

\* C21: for every magnitude v from 0 to MAX of the width, the Count of
\* magnitude v (Count::of(v), or Count::MAX for v = MAX, which no value of T
\* reaches) has max_offset() = v - 1, and contains(o) holds iff 0 <= o < v,
\* for every i64 offset o.
CountMaxOffsetIsCountLessOne ==
    /\ (index_op.name = "of" /\ WLe(WInt(0), index_op.arg.value)) =>
          /\ index_result = "Ok"
          /\ Magnitude(count_self) = index_op.arg.value
    /\ (index_op.name = "max_offset" /\ CountValid(count_self, count_width)) =>
          /\ index_result = "Ok"
          /\ index_ret = WSub(Magnitude(count_self), WInt(1))
    /\ (index_op.name = "contains" /\ CountValid(count_self, count_width)) =>
          /\ index_result = "Ok"
          /\ index_ret = (/\ WLe(WInt(0), index_op.arg.offset)
                          /\ WLt(index_op.arg.offset, Magnitude(count_self)))

\* C21 witness: Count::MAX (2^63) contains the offset i64::MAX
CountMaxContainsLastOffset ==
    /\ index_op.name = "contains"
    /\ count_self = CountN_MAX(64)
    /\ index_op.arg.offset = WSub(WPow2(63), WInt(1))
    /\ index_ret = TRUE

\* C22: for every Count c of a width and every small positive min_value,
\* c.double_or_max(min_value) is the Count min(MAX, max(min_value, 2c)),
\* reached without overflow; every c above MAX/2 gives MAX.
CountDoubleOrMaxClamps ==
    (index_op.name = "double_or_max" /\ CountValid(index_op.arg.self, count_width)) =>
        /\ index_result = "Ok"
        /\ Magnitude(count_self)
             = WMin(Magnitude(CountN_MAX(count_width)),
                    IF WLe(WAdd(Magnitude(index_op.arg.self), Magnitude(index_op.arg.self)),
                           index_op.arg.min_value)
                    THEN index_op.arg.min_value
                    ELSE WAdd(Magnitude(index_op.arg.self), Magnitude(index_op.arg.self)))
        /\ WLt(WPow2(count_width - 2), Magnitude(index_op.arg.self)) =>
             count_self = CountN_MAX(count_width)

\* C22 witness: Count::of(123).double_or_max(2) has given Count::of(246)
CountOf123Doubled ==
    /\ index_op.name = "double_or_max"
    /\ count_width = 64
    /\ index_op.arg.self = WInt(-123)
    /\ index_op.arg.min_value = WInt(2)
    /\ count_self = WInt(-246)

\* C23: for each width W, from_usize(v) returns the Count of magnitude v for
\* every v <= 2^(W-1), without an arithmetic overflow, and fails with TooHigh
\* for every v > 2^(W-1).
CountFromUsizeAcceptsUpToMax ==
    index_op.name = "from_usize" =>
        IF WLe(index_op.arg.value, WPow2(index_op.arg.w - 1))
        THEN /\ index_result = "Ok"
             /\ count_width = index_op.arg.w
             /\ Magnitude(count_self) = index_op.arg.value
        ELSE index_result = "TooHigh"

\* C24: every Count a public operation has produced (of, from_usize, default,
\* MAX, double_or_max, the operators) has a stored field <= 0.
CountStoredFieldNonPositive == WLe(count_self, WInt(0))

\* C25: Index::Of(i).check_offset(count), for every count from 0 to MAX and
\* every i64 i, is in bounds at i when 0 <= i < count, in bounds at count + i
\* when -count <= i < 0, OutOfBounds when i < -count, and increases the count
\* at offset i when i >= count.
IndexOfResolves ==
    (/\ index_op.name = "check_offset"
     /\ index_op.arg.kind = "Of"
     /\ CountValid(count_self, count_width)) =>
        IF WLe(WInt(0), index_op.arg.value)
        THEN /\ index_result = "Ok"
             /\ index_ret.offset = index_op.arg.value
             /\ index_ret.increases_count
                  = WLe(Magnitude(count_self), index_op.arg.value)
        ELSE IF WLe(count_self, index_op.arg.value)
        THEN /\ index_result = "Ok"
             /\ index_ret.offset = WAdd(Magnitude(count_self), index_op.arg.value)
             /\ index_ret.increases_count = FALSE
        ELSE index_result = "OutOfBounds"

\* C26: Index::Wrap(i).check_offset(count) is EmptySequence for every i when
\* the count is 0; for every count from 1 to MAX and every i64 i it is in
\* bounds at the Euclidean remainder of i by count (the offset in 0..count-1
\* that differs from i by a multiple of count), with no panic.
IndexWrapResolves ==
    (/\ index_op.name = "check_offset"
     /\ index_op.arg.kind = "Wrap"
     /\ CountValid(count_self, count_width)) =>
        IF count_self = WInt(0)
        THEN index_result = "EmptySequence"
        ELSE /\ index_result = "Ok"
             /\ index_ret.increases_count = FALSE
             /\ WLe(WInt(0), index_ret.offset)
             /\ WLt(index_ret.offset, Magnitude(count_self))
             /\ rem_euclid(WSub(index_op.arg.value, index_ret.offset),
                           Magnitude(count_self)) = WInt(0)

\* C26 witness: Index::Wrap(i64::MIN) on a sequence of Count::MAX elements is
\* in bounds at offset 0
IndexWrapMostNegativeAtMax ==
    /\ index_op.name = "check_offset"
    /\ index_op.arg.kind = "Wrap"
    /\ index_op.arg.value = WNeg(WPow2(63))
    /\ count_self = CountN_MAX(64)
    /\ index_result = "Ok"
    /\ index_ret.offset = WInt(0)

\* C27: Index::Ordinal(n).check_offset(count), for every count from 0 to MAX,
\* is InvalidOrdinal for n <= 0, in bounds at n - 1 for 1 <= n <= count, and
\* increases the count at offset n - 1 for n > count.
IndexOrdinalResolves ==
    (/\ index_op.name = "check_offset"
     /\ index_op.arg.kind = "Ordinal"
     /\ CountValid(count_self, count_width)) =>
        IF WLe(Magnitude(index_op.arg.value), WInt(0))
        THEN index_result = "InvalidOrdinal"
        ELSE /\ index_result = "Ok"
             /\ index_ret.offset = WSub(Magnitude(index_op.arg.value), WInt(1))
             /\ index_ret.increases_count
                  = WLt(Magnitude(count_self), Magnitude(index_op.arg.value))

(***************************************************************************)
(* Properties of the layout.                                               *)
(***************************************************************************)
\* C28: a Shtick occupies exactly 16 bytes and its representation union 14;
\* the allocation branch of the union starts at the Shtick's own address,
\* which is a multiple of 8, so no alignment assertion made on an access to
\* the allocation fails.
ShtickLayoutKeepsAllocationAligned ==
    /\ Shtick_layout.size = 16
    /\ MaybeAllocated_layout.size = 14
    /\ Shtick_allocation_offset = 0
    /\ shtick_address # NoAddress => shtick_address % 8 = 0
    /\ layout_result # "panic"

\* C28 witness: the assertions of allocation_mut have passed on a Shtick
\* placed at address 24
ShtickAllocationAssertedAt24 ==
    /\ layout_op = Call("allocation", 24)
    /\ shtick_address = 24
    /\ layout_result = "Ok"

(***************************************************************************)
(* Safety of the slot accesses and of the heap.                            *)
(***************************************************************************)
\* C29: in any sequence of Array operations (push, pop, clear, mut_capacity,
\* mut_count) every slot access is inside the capacity: the count never
\* exceeds the capacity, and no write_uninitialized or read_destructively
\* returns InvalidOffset, so no "should be in bounds" unwrap panics.
ArraySlotAccessesInBounds ==
    /\ array_result # "panic"
    /\ Count_le(array_count, array_capacity)
    /\ MLen(array_allocation) = into_usize(array_capacity)

\* C29 witness: a push has written the last slot of a capacity of 2
ArrayLastSlotWritten ==
    /\ array_op.name = "push"
    /\ array_result = "Ok"
    /\ array_count = Count_of(2)
    /\ array_capacity = Count_of(2)

\* C30: in any sequence of Shtick operations ending in destruction, no heap
\* buffer is deallocated twice; the tag and the member of the union written
\* last always agree, and while they name the allocation its buffer has not
\* been deallocated, so no access goes to a freed buffer or through the
\* member the tag has switched away from.
ShtickHeapNeverMisused ==
    /\ \A p \in Pointers : heap[p].state # "double freed"
    /\ is_allocated(shtick_self) <=> maybe_allocated.view = "allocation"
    /\ maybe_allocated.view = "allocation" =>
          /\ maybe_allocated.allocation.ptr \in Pointers
          /\ heap[maybe_allocated.allocation.ptr].state = "live"

\* C30 witness: a Shtick that was moved to the heap and back to its inline
\* buffer, and to the heap again, has been destroyed
ShtickSwitchedTwiceDropped ==
    /\ shtick_op.name = "drop"
    /\ shtick_result = "Ok"
    /\ \E p, q \in Pointers : p # q /\ heap[p].state = "live" /\ heap[q].state = "freed"

(***************************************************************************)
(* Errors of the Shtick and of the Array.                                  *)
(***************************************************************************)
\* C31: push(char) returns TooLarge exactly when the length plus the
\* character's UTF-8 length exceeds the greatest 16-bit count, 32768, and a
\* push that returns TooLarge leaves the representation, the capacity, the
\* count and the bytes (and the heap) as they were.
ShtickPushTooLargeChangesNothing ==
    [][shtick_op'.name = "push" =>
        /\ shtick_result' = "TooLarge"
             <=> into_usize(Shtick_count(shtick_self)) + len_utf8(shtick_op'.arg)
                   > MAX_USIZE(Count16Width)
        /\ shtick_result' = "TooLarge" =>
             /\ special_count' = special_count
             /\ maybe_allocated' = maybe_allocated
             /\ heap' = heap]_vars

\* C31 witness: the push of a two-byte character onto a Shtick of 32767
\* bytes has failed with TooLarge
ShtickPushRefusedAt32767 ==
    /\ shtick_op = Call("push", 223)
    /\ shtick_result = "TooLarge"
    /\ into_usize(Shtick_count(shtick_self)) = 32767

\* C32: from every reachable Shtick state, a push whose length plus the
\* character's UTF-8 length is at most 32768 and whose allocator requests are
\* all granted returns Ok, raises the count by exactly that length, keeps the
\* earlier bytes and puts the character's bytes at the tail: neither the
\* doubling of the capacity nor the assertion after the growth panics.
ShtickPushSucceedsWithinDomain ==
    [][(/\ shtick_op'.name = "push"
        /\ into_usize(Shtick_count(shtick_self)) + len_utf8(shtick_op'.arg)
             <= MAX_USIZE(Count16Width)
        /\ shtick_result' # "Allocation(OutOfMemory)")
       => /\ shtick_result' = "Ok"
          /\ into_usize(Shtick_count(shtick_self)')
               = into_usize(Shtick_count(shtick_self)) + len_utf8(shtick_op'.arg)
          /\ Shtick_deref(shtick_self)'
               = MCat(Shtick_deref(shtick_self), encode_utf8(shtick_op'.arg))]_vars

\* a full Array whose capacity is the MAX of the count type of width W
ArrayFullAtMax(W) ==
    Arr(SignedMIN(W), SignedMIN(W), MFill("v", 1, MAX_USIZE(W)), "Ok", << >>)

\* C33: a push that cannot grow (the allocator refuses, or the capacity is
\* already MAX) returns Allocation(OutOfMemory) and leaves the count, the
\* capacity and the elements as they were; a push on a full Array that
\* returns Ok has grown the capacity, no push panics, and the count stays at
\* most the capacity.  (The refusal at MAX is taken on the 8-bit count type,
\* whose MAX of 128 slots fits the model's memory.)
ArrayPushRefusedChangesNothing ==
    [][array_op'.name = "push" =>
        /\ array_result' \in {"Ok", "Allocation(OutOfMemory)"}
        /\ Count_le(array_count', array_capacity')
        /\ array_result' = "Allocation(OutOfMemory)" =>
             /\ array_count = array_capacity
             /\ array_count' = array_count
             /\ array_capacity' = array_capacity
             /\ array_allocation' = array_allocation
        /\ (array_result' = "Ok" /\ array_count = array_capacity) =>
             Count_gt(array_capacity', array_capacity)
        /\ array_push_grown(array_op'.arg, ArrayFullAtMax(AllocationWidth),
                            allocation_grow(ArrayFullAtMax(AllocationWidth).allocation,
                                            ArrayFullAtMax(AllocationWidth).capacity,
                                            TRUE, AllocationWidth))
             = Arr(SignedMIN(AllocationWidth), SignedMIN(AllocationWidth),
                   ArrayFullAtMax(AllocationWidth).allocation,
                   "Allocation(OutOfMemory)", << >>)]_vars

\* C33 witness: the allocator has refused the growth of a full Array of two
\* elements, which still holds the two
ArrayPushRefusedAtTwo ==
    /\ array_op.name = "push"
    /\ array_result = "Allocation(OutOfMemory)"
    /\ array_count = Count_of(2)
    /\ Array_deref(array_self) = MCat(Value(1), Value(2))

\* C34: when mut_capacity(c) or mut_count(n) returns an error, the count, the
\* capacity and the live elements of the Array are those before the call,
\* also when c is below the count.
ArrayResizeErrorChangesNothing ==
    [][(/\ array_op'.name \in {"mut_capacity", "mut_count"}
        /\ array_result' # "Ok")
       => /\ array_count' = array_count
          /\ array_capacity' = array_capacity
          /\ Array_deref(array_self)' = Array_deref(array_self)]_vars

\* the Shtick S as a call that changed nothing and returned OutOfMemory
\* leaves it
ShtickRefused(S) == Sh(S.special_count, S.maybe_allocated, S.heap, "Allocation(OutOfMemory)")

\* C35: a mut_capacity (Heap-to-Heap resize or Inline-to-Heap allocation) or
\* a growing push whose allocator request is refused returns
\* Allocation(OutOfMemory), and a call that returns it leaves the
\* representation, the capacity, the count and the bytes exactly as before.
ShtickOutOfMemoryChangesNothing ==
    [][shtick_op'.name \in {"push", "mut_capacity"} =>
        /\ shtick_result' = "Allocation(OutOfMemory)" =>
             /\ special_count' = special_count
             /\ maybe_allocated' = maybe_allocated
             /\ heap' = heap
        /\ (/\ shtick_op'.name = "mut_capacity"
            /\ shtick_op'.arg > UNALLOCATED16
            /\ shtick_op'.arg # into_usize(Shtick_capacity(shtick_self))) =>
             Shtick_mut_capacity(shtick_self, Count_of(shtick_op'.arg), FALSE)
               = ShtickRefused(shtick_self)
        /\ (/\ shtick_op'.name = "push"
            /\ into_usize(Shtick_count(shtick_self)) + len_utf8(shtick_op'.arg)
                 <= MAX_USIZE(Count16Width)
            /\ into_usize(Shtick_count(shtick_self)) + len_utf8(shtick_op'.arg)
                 >= into_usize(Shtick_capacity(shtick_self))
            /\ is_allocated(shtick_self) =>
                 2 * into_usize(Shtick_capacity(shtick_self)) <= MAX_USIZE(Count16Width)) =>
             \A overflow_checks \in BOOLEAN :
                Shtick_push(shtick_self, shtick_op'.arg, FALSE, overflow_checks)
                  = ShtickRefused(shtick_self)]_vars

\* C35 witness: the allocator has refused to shrink the buffer of a Shtick
\* of 16385 bytes to 28, and the Shtick still has its 16385 bytes
ShtickShrinkRefused ==
    /\ shtick_op = Call("mut_capacity", 28)
    /\ shtick_result = "Allocation(OutOfMemory)"
    /\ into_usize(Shtick_count(shtick_self)) = 16385

\* C36: across any sequence of push, pop, clear, mut_capacity and mut_count
\* calls followed by destruction, every element written into a slot is moved
\* out of it exactly once: no call reads a slot destructively twice without
\* a write between, writes over a slot holding a live element, or shrinks or
\* releases the Allocation while a slot it gives up holds one; the slots
\* below the count hold the live elements, those from the count on hold
\* none, and after Drop there is no buffer and no element left.
ArrayMovesEveryElementOnce ==
    /\ array_result \notin Misused
    /\ NoUninit(Array_deref(array_self))
    /\ MDrop(array_allocation, into_usize(array_count))
         = Uninit(into_usize(array_capacity) - into_usize(array_count))
    /\ array_op.name = "drop" =>
         /\ array_result = "Ok"
         /\ array_count = Count_of(0)
         /\ array_allocation = << >>

\* C36 witness: the only element of an Array of capacity 2 has been moved
\* out by pop, and both slots are empty
ArrayOnlyElementMovedOut ==
    /\ array_op.name = "pop"
    /\ array_ret = Value(1)
    /\ array_count = Count_of(0)
    /\ array_allocation = Uninit(2)

(***************************************************************************)
(* What every OffsetCheck means, and Wrap against Of.                      *)
(***************************************************************************)
\* C37: whatever the variant of the Index, its value and the count, an Ok of
\* check_offset with increases_count false carries an offset with
\* 0 <= offset < count, an Ok with increases_count true carries an offset
\* >= count, and InBounds and Wrap never give increases_count true.
IndexOffsetCheckMeansWhatItSays ==
    (/\ index_op.name = "check_offset"
     /\ index_result = "Ok") =>
        IF index_ret.increases_count
        THEN /\ WLe(Magnitude(count_self), index_ret.offset)
             /\ index_op.arg.kind \in {"Of", "Ordinal"}
        ELSE /\ WLe(WInt(0), index_ret.offset)
             /\ WLt(index_ret.offset, Magnitude(count_self))

\* C37 witness: Index::Of(123) on a sequence of 123 elements is the first
\* offset past the end: Ok at 123, increasing the count
IndexOfCountIncreasesCount ==
    /\ index_op.name = "check_offset"
    /\ index_op.arg.kind = "Of"
    /\ count_self = WInt(-123)
    /\ index_op.arg.value = WInt(123)
    /\ index_result = "Ok"
    /\ index_ret = [offset |-> WInt(123), increases_count |-> TRUE]

\* the recorded outcome of check_offset is the outcome r
IndexGave(r) ==
    /\ index_result = r.result
    /\ index_ret = [offset |-> r.offset, increases_count |-> r.increases_count]

====
